---------------------------- MODULE Spec2Model ----------------------------
(***************************************************************************)
(* HardClamDrift (src/scripts/model/hard_clam_drift.py): the per-particle  *)
(* biological state machine and thermal-exposure accumulator that runs     *)
(* inside every update() of the particle-tracking framework.               *)
(*                                                                         *)
(* Units.  The source computes in floating point; the model is exact and  *)
(* uses fixed point:                                                       *)
(*   temperature      0.1 degC        (T0_egg = 12.9 degC  is 129)         *)
(*   time             1 hour          (dt_h, *_hours, *_run, *_time_h)     *)
(*   degree-hours     0.1 degC * h    (K_egg = 259 degC h  is 2590)        *)
(*   progress         1/1000          (1.0 is ProgressOne = 1000)          *)
(*   depth, z         0.5 m           (z = -0.5 m is -1)                   *)
(*   lon, lat         1 degree, all particles on one meridian              *)
(* NaN (np.nan) and None are both the empty tuple; a set value v is <<v>>. *)
(*                                                                         *)
(* The second part models the routines of                                  *)
(* src/scripts/utils/statistical_utilities.py that are called with a       *)
(* method name (fdr_correction, permutation_test, robust_regression,       *)
(* calculate_effect_size), under the specification SpecStats.  p-values    *)
(* are binary floating-point numbers <<m, e>> (the value m * 2^e) with a   *)
(* significand of FloatBits bits, rounded to nearest, ties to even, after  *)
(* every multiplication and division as IEEE 754 arithmetic does.          *)
(***************************************************************************)
EXTENDS Integers, Sequences, FiniteSets, TLC

VARIABLES
    cfg,                  \* the model's configuration attributes and time_step
    time,                 \* self.time, hours on the simulation clock
    t0,                   \* self._t0: None, or <<time of the first update()>>
    sublethal_run,        \* self._sublethal_run: None, or <<the array>>
    elements,             \* self.elements: the array of active particles
    sublethal_run_max,    \* self.elements.sublethal_run_max, an array of its own
    elements_deactivated, \* particles the framework has removed from elements
    environment,          \* self.environment: one sample per active particle
    requests,             \* per particle ID: reasons passed to deactivate_elements
    checks,               \* per particle ID: checks evaluated in this update()
    held,                 \* per particle ID: <<T>> while every sample so far was T
    solo,                 \* per particle ID: its sublethal run had it been alone
    pc,                   \* position inside update()
    steps,                \* update() calls completed
    crashed,              \* an exception has ended the run
    args,                 \* statistical_utilities: the arguments of a call
    result,               \* statistical_utilities: what the call returned or raised
    locals,               \* the local variables of a call that is inside a loop
    previous,             \* what the same call returned the time before
    np_random             \* state of numpy's global generator, np.random

vars == <<cfg, time, t0, sublethal_run, elements, sublethal_run_max,
          elements_deactivated, environment, requests, checks, held, solo,
          pc, steps, crashed, args, result, locals, previous, np_random>>

stats_vars == <<args, result, locals, previous, np_random>>

-----------------------------------------------------------------------------
(* Bounds of the model *)

MaxSteps == 7
MaxParticles == 2

(* Program constants: HardClamDrift.__init__ *)

T0_egg == 129
K_egg == 2590
T0_larva == 190
K_larva == 8400
Topt_low_egg == 250
Topt_high_egg == 270
Topt_low_larva == 270
Topt_high_larva == 290
T_sublethal == 300
Tcrit == 330
settle_bottom_buffer_m == 2

ProgressOne == 1000
KmPerDegree == 111

NaN == <<>>
None == <<>>

IsNaN(x) == x = <<>>
Val(x) == x[1]

Max(a, b) == IF a >= b THEN a ELSE b
Min(a, b) == IF a <= b THEN a ELSE b
Abs(a) == IF a >= 0 THEN a ELSE -a

(* haversine_km for two points of one meridian: dlon = 0, so a = sin^2(dlat/2), *)
(* c = |dlat| and the distance is R * |dlat| = 111 km per degree.              *)
(* Every position of the model has longitude 0, so dlon = 0 in every call.  *)
haversine_km(lon1, lat1, lon2, lat2) == KmPerDegree * Abs(lat2 - lat1)

(* _hours_since_start *)
hours_since_start == IF t0 = None THEN 0 ELSE time - Val(t0)

-----------------------------------------------------------------------------
(* HardClamElement: one particle with the defaults of its variables *)

HardClamElement(id, lat0, z0) ==
    [ ID |-> id,
      lon |-> 0, lat |-> lat0, z |-> z0,
      release_lon |-> 0, release_lat |-> lat0,
      stage |-> 0, age_h |-> 0, acc_deg_h |-> 0, progress |-> 0,
      competent |-> 0, competent_time_h |-> NaN,
      hatch_time_h |-> NaN, hatch_lon |-> NaN, hatch_lat |-> NaN,
      hatch_distance_km |-> NaN,
      settled_flag |-> 0, settle_time_h |-> NaN, settle_lon |-> NaN,
      settle_lat |-> NaN, settle_distance_km |-> NaN,
      final_distance_km |-> NaN,
      hot_hours |-> 0, hot_run |-> 0, hot_run_max |-> 0,
      cold_hours |-> 0, cold_run |-> 0, cold_run_max |-> 0,
      opt_hours_egg |-> 0, opt_hours_larva |-> 0,
      opt_below_hours_egg |-> 0, opt_above_hours_egg |-> 0,
      opt_below_hours_larva |-> 0, opt_above_hours_larva |-> 0,
      sublethal_hours_total |-> 0, sublethal_hours_egg |-> 0,
      sublethal_hours_larva |-> 0, sublethal_deg_h_total |-> 0,
      egg_hours |-> 0, larva_hours |-> 0,
      temp_time_sum_egg |-> 0, temp_time_sum_larva |-> 0,
      near_bottom_hours_larva |-> 0,
      cold_deg_h_egg |-> 0, hot_deg_h_egg |-> 0,
      cold_deg_h_larva |-> 0, hot_deg_h_larva |-> 0 ]

-----------------------------------------------------------------------------
(* numpy helpers *)

(* Two array lengths broadcast when they are equal or one of them is 1 *)
Broadcastable(n, m) == n = m \/ n = 1 \/ m = 1

At(a, i) == IF Len(a) = 1 THEN a[1] ELSE a[i]

(* np.where(cond, run + dt, 0.0) *)
np_where_run(cond, run, dt) ==
    [i \in 1..Max(Len(cond), Len(run)) |->
        IF At(cond, i) THEN At(run, i) + dt ELSE 0]

(* np.maximum(a, b) *)
np_maximum(a, b) ==
    [i \in 1..Max(Len(a), Len(b)) |-> Max(At(a, i), At(b, i))]

(* a[~mask] for the mask given as the set of indices to drop *)
RECURSIVE Compress(_, _, _)
Compress(a, drop, i) ==
    IF i > Len(a) THEN <<>>
    ELSE (IF i \in drop THEN <<>> ELSE <<a[i]>>) \o Compress(a, drop, i + 1)

IsSet(x) == x # None /\ Val(x) > 0

(* Progress without the clamp at 1.0 *)
Progress_Unclamped(acc, K) == (acc * ProgressOne) \div K

(* min(1.0, acc_deg_h / K) *)
Progress(acc, K) == Min(ProgressOne, (acc * ProgressOne) \div K)

-----------------------------------------------------------------------------
(* _biology, lines 219-232: lethal temperature exposure of one particle *)

(* HotExposure with a run that a cooler timestep does not reset *)
HotExposure_NoReset(p, T, c) ==
    LET is_hot == T >= Tcrit
        run == p.hot_run + (IF is_hot THEN c.dt_h ELSE 0)
    IN [p EXCEPT !.hot_hours = @ + (IF is_hot THEN c.dt_h ELSE 0),
                 !.hot_run = run,
                 !.hot_run_max = Max(@, run)]

HotExposure(p, T, c) ==
    LET is_hot == T >= Tcrit
        run == IF is_hot THEN p.hot_run + c.dt_h ELSE 0
    IN [p EXCEPT !.hot_hours = @ + (IF is_hot THEN c.dt_h ELSE 0),
                 !.hot_run = run,
                 !.hot_run_max = Max(@, run)]

(* to_kill_hot with strict comparisons *)
to_kill_hot_Strict(p, c) ==
    \/ IsSet(c.hotkill_hours) /\ p.hot_hours > Val(c.hotkill_hours)
    \/ IsSet(c.hotkill_consec) /\ p.hot_run > Val(c.hotkill_consec)

(* to_kill_hot with an unset threshold read as 0 hours *)
to_kill_hot_NoneAsZero(p, c) ==
    \/ p.hot_hours >= (IF c.hotkill_hours = None THEN 0 ELSE Val(c.hotkill_hours))
    \/ p.hot_run >= (IF c.hotkill_consec = None THEN 0 ELSE Val(c.hotkill_consec))

to_kill_hot(p, c) ==
    \/ IsSet(c.hotkill_hours) /\ p.hot_hours >= Val(c.hotkill_hours)
    \/ IsSet(c.hotkill_consec) /\ p.hot_run >= Val(c.hotkill_consec)

(* lines 235-236: cumulative sublethal hours *)
SublethalHours(p, T, c) ==
    [p EXCEPT !.sublethal_hours_total =
                  @ + (IF T >= T_sublethal THEN c.dt_h ELSE 0)]

(* line 244: temperature excess integral *)
SublethalDegH(p, T, c) ==
    [p EXCEPT !.sublethal_deg_h_total = @ + Max(0, T - T_sublethal) * c.dt_h]

(* is_opt with the bounds of the band excluded *)
is_opt_Strict(T, low, high) == T > low /\ T < high

(* lines 261 and 328: is_opt_egg, is_opt_larva *)
is_opt(T, low, high) == T >= low /\ T <= high

(* lines 246-289: egg stage of one particle *)
(* hatch with the threshold at half of the requirement *)
hatch_Early(p) == p.stage = 0 /\ 2 * p.progress >= ProgressOne

hatch(p) == p.stage = 0 /\ p.progress >= ProgressOne

EggDevelopment(p, T, c) ==
    LET acc == p.acc_deg_h + Max(0, T - T0_egg) * c.dt_h
    IN [p EXCEPT
          !.acc_deg_h = acc,
          !.progress = Progress(acc, K_egg),
          !.egg_hours = @ + c.dt_h,
          !.temp_time_sum_egg = @ + T * c.dt_h,
          !.opt_hours_egg =
              @ + (IF is_opt(T, Topt_low_egg, Topt_high_egg)
                   THEN c.dt_h ELSE 0),
          !.opt_below_hours_egg = @ + (IF T < Topt_low_egg THEN c.dt_h ELSE 0),
          !.opt_above_hours_egg = @ + (IF T > Topt_high_egg THEN c.dt_h ELSE 0),
          !.cold_deg_h_egg = @ + Max(0, Topt_low_egg - T) * c.dt_h,
          !.hot_deg_h_egg = @ + Max(0, T - Topt_high_egg) * c.dt_h,
          !.sublethal_hours_egg = @ + (IF T >= T_sublethal THEN c.dt_h ELSE 0)]

(* Hatching without the reset of acc_deg_h for the larval stage *)
Hatching_NoReset(p, hs) ==
    [p EXCEPT !.stage = 1,
              !.hatch_time_h = <<hs>>,
              !.hatch_lon = <<p.lon>>,
              !.hatch_lat = <<p.lat>>,
              !.hatch_distance_km =
                  <<haversine_km(p.release_lon, p.release_lat, p.lon, p.lat)>>,
              !.progress = 0]

Hatching(p, hs) ==
    [p EXCEPT !.stage = 1,
              !.hatch_time_h = <<hs>>,
              !.hatch_lon = <<p.lon>>,
              !.hatch_lat = <<p.lat>>,
              !.hatch_distance_km =
                  <<haversine_km(p.release_lon, p.release_lat, p.lon, p.lat)>>,
              !.acc_deg_h = 0,
              !.progress = 0]

EggStage(p, T, c, hs) ==
    IF p.stage = 0
    THEN LET q == EggDevelopment(p, T, c)
         IN IF hatch(q) THEN Hatching(q, hs) ELSE q
    ELSE p

(* comp_new without the test that the larva is not competent yet *)
comp_new_Repeated(p) == p.stage = 1 /\ p.progress >= ProgressOne

(* lines 291-319: larval development, competency, cold run *)
comp_new(p) == p.stage = 1 /\ p.competent = 0 /\ p.progress >= ProgressOne

(* is_cold with a strict comparison *)
is_cold_Strict(T) == T < T0_larva

(* line 308 *)
is_cold(T) == T <= T0_larva

LarvaDevelopment(p, T, c, hs) ==
    IF p.stage = 1
    THEN LET acc == p.acc_deg_h + Max(0, T - T0_larva) * c.dt_h
             q == [p EXCEPT !.age_h = @ + c.dt_h,
                            !.acc_deg_h = acc,
                            !.progress = Progress(acc, K_larva)]
             r == IF comp_new(q)
                  THEN [q EXCEPT !.competent = 1, !.competent_time_h = <<hs>>]
                  ELSE q
             new_run == r.cold_run + (IF is_cold(T) THEN c.dt_h ELSE 0)
             run == IF is_cold(T) THEN new_run ELSE 0
         IN [r EXCEPT !.cold_hours = @ + (IF is_cold(T) THEN c.dt_h ELSE 0),
                      !.cold_run = run,
                      !.cold_run_max = Max(@, run)]
    ELSE p

limit_h(c) == Val(c.cold_stagnant_days) * 24

(* stagn with a strict comparison of the cold run *)
stagn_Strict(p, c) ==
    /\ IsSet(c.cold_stagnant_days)
    /\ p.stage = 1
    /\ p.progress < ProgressOne
    /\ p.cold_run > limit_h(c)

stagn(p, c) ==
    /\ IsSet(c.cold_stagnant_days)
    /\ p.stage = 1
    /\ p.progress < ProgressOne
    /\ p.cold_run >= limit_h(c)

(* lines 343-345 and 364-365: (-z) >= depth - settle_bottom_buffer_m *)
near_bottom(p, depth) == (-p.z) >= depth - settle_bottom_buffer_m

(* lines 348-356: diel vertical migration, clamped to [-depth + 0.5, -0.5] *)
DielMigration(p, depth, c, hour) ==
    IF c.dvm_speed > 0
    THEN LET direction == IF hour < 12 THEN -1 ELSE 1
             dz == direction * c.dvm_speed * c.dt_h
         IN [p EXCEPT !.z = Max(-depth + 1, Min(-1, p.z + dz))]
    ELSE p

(* lines 321-356: larval stage statistics and vertical migration *)
LarvaStatistics(p, T, depth, c, hour) ==
    IF p.stage = 1
    THEN LET q ==
           [p EXCEPT
              !.larva_hours = @ + c.dt_h,
              !.temp_time_sum_larva = @ + T * c.dt_h,
              !.opt_hours_larva =
                  @ + (IF is_opt(T, Topt_low_larva, Topt_high_larva)
                       THEN c.dt_h ELSE 0),
              !.opt_below_hours_larva =
                  @ + (IF T < Topt_low_larva THEN c.dt_h ELSE 0),
              !.opt_above_hours_larva =
                  @ + (IF T > Topt_high_larva THEN c.dt_h ELSE 0),
              !.cold_deg_h_larva = @ + Max(0, Topt_low_larva - T) * c.dt_h,
              !.hot_deg_h_larva = @ + Max(0, T - Topt_high_larva) * c.dt_h,
              !.sublethal_hours_larva =
                  @ + (IF T >= T_sublethal THEN c.dt_h ELSE 0),
              !.near_bottom_hours_larva =
                  @ + (IF near_bottom(p, depth) THEN c.dt_h ELSE 0)]
         IN DielMigration(q, depth, c, hour)
    ELSE p

(* done without the near-bottom filter *)
done_IgnoreBottom(p, depth, c) ==
    /\ c.stop_when_larva_complete
    /\ p.stage = 1
    /\ p.progress >= ProgressOne

(* done without the test progress >= 1.0 *)
done_IgnoreProgress(p, depth, c) ==
    /\ c.stop_when_larva_complete
    /\ p.stage = 1
    /\ (c.settle_require_bottom => near_bottom(p, depth))

(* lines 358-382: settlement upon completion *)
done(p, depth, c) ==
    /\ c.stop_when_larva_complete
    /\ p.stage = 1
    /\ p.progress >= ProgressOne
    /\ (c.settle_require_bottom => near_bottom(p, depth))

(* Settle with settlement recorded as a third value of stage *)
Settle_AsStage(p, hs) ==
    [p EXCEPT !.settle_time_h = <<hs>>,
              !.settled_flag = 1,
              !.stage = 2,
              !.settle_lon = <<p.lon>>,
              !.settle_lat = <<p.lat>>,
              !.settle_distance_km =
                  <<haversine_km(p.release_lon, p.release_lat, p.lon, p.lat)>>]

Settle(p, hs) ==
    [p EXCEPT !.settle_time_h = <<hs>>,
              !.settled_flag = 1,
              !.settle_lon = <<p.lon>>,
              !.settle_lat = <<p.lat>>,
              !.settle_distance_km =
                  <<haversine_km(p.release_lon, p.release_lat, p.lon, p.lat)>>]

(* FinalDistance from the position before the transport of this timestep *)
FinalDistance_PreviousPosition(p) ==
    [p EXCEPT !.final_distance_km =
                  <<haversine_km(p.release_lon, p.release_lat, p.lon, p.lat - 1)>>]

(* update, lines 202-208 *)
FinalDistance(p) ==
    [p EXCEPT !.final_distance_km =
                  <<haversine_km(p.release_lon, p.release_lat, p.lon, p.lat)>>]

(* _biology for one particle: lines 219-382 in program order *)
Biology(p, T, depth, c, hs, hour) ==
    LET a == SublethalDegH(SublethalHours(HotExposure(p, T, c), T, c), T, c)
        b == EggStage(a, T, c, hs)
        d == LarvaDevelopment(b, T, c, hs)
        e == LarvaStatistics(d, T, depth, c, hour)
    IN IF done(e, depth, c) THEN Settle(e, hs) ELSE e

(* whether that call asks the framework to deactivate the particle *)
Deactivates(p, T, depth, c, hs, hour) ==
    LET a == HotExposure(p, T, c)
        d == LarvaDevelopment(EggStage(a, T, c, hs), T, c, hs)
    IN \/ to_kill_hot(a, c)
       \/ stagn(d, c)
       \/ done(LarvaStatistics(d, T, depth, c, hour), depth, c)

-----------------------------------------------------------------------------
(* Configurations and inputs of a run.  cfg holds the attributes a caller   *)
(* sets on the model (hotkill_hours, hotkill_consec, cold_stagnant_days,    *)
(* dvm_speed, stop_when_larva_complete, settle_require_bottom), the run's   *)
(* time_step dt_h and start hour, the number n of seeded particles, the     *)
(* values the environment can take (temps, zs and the floor depth), and the *)
(* framework settings drift:vertical_advection and drift:vertical_mixing    *)
(* with the values __init__ gives them.                                     *)

Config(hh, hc, csd, dvm, stop, req, dt, hour0, n, temps, zs) ==
    [ hotkill_hours |-> hh, hotkill_consec |-> hc, cold_stagnant_days |-> csd,
      dvm_speed |-> dvm, stop_when_larva_complete |-> stop,
      settle_require_bottom |-> req, dt_h |-> dt, start_hour |-> hour0,
      n |-> n, temps |-> temps, zs |-> zs, depth |-> 10,
      vertical_advection |-> TRUE, vertical_mixing |-> FALSE ]

(* one particle under every combination of the mortality thresholds *)
ThermalRuns ==
    { Config(hh, hc, csd, 0, stop, FALSE, dt, 0, 1, {150, 260, 330}, {-9}) :
        hh \in {None, <<36>>}, hc \in {None, <<24>>}, csd \in {None, <<2>>},
        stop \in BOOLEAN, dt \in {12, 24} }

(* one warm particle under every settlement policy *)
SettlingRuns ==
    { Config(None, None, <<4>>, dvm, stop, req, 24, hour0, 1, {330}, {-2, -9}) :
        dvm \in {0, 1}, stop \in BOOLEAN, req \in BOOLEAN, hour0 \in {0, 12} }

(* a population, with the default thresholds and with a heat-kill trigger *)
PopulationRuns ==
    { Config(None, hc, <<4>>, 0, TRUE, FALSE, 24, 0, n, {260, 330}, {-9}) :
        hc \in {None, <<24>>}, n \in 2..MaxParticles }

(* a migrating larva over a floor 0.5 m below the surface *)
ShallowRuns ==
    { [Config(None, None, <<4>>, 1, TRUE, FALSE, 24, hour0, 1, {330}, {-1})
          EXCEPT !.depth = 1] : hour0 \in {0, 12} }

(* one particle at the bounds of the optimal bands: 25.0, 27.0, 29.0 degC *)
BandEdgeRuns ==
    { Config(None, None, <<4>>, 0, FALSE, FALSE, 24, 0, 1, {250, 270, 290}, {-9}) }

(* every setting of the two vertical transport processes *)
VerticalRuns ==
    { [Config(None, None, <<4>>, dvm, TRUE, FALSE, 24, 0, 1, {330}, {-2, -9})
          EXCEPT !.vertical_advection = va, !.vertical_mixing = vm] :
        dvm \in {0, 1}, va \in BOOLEAN, vm \in BOOLEAN }

Configs ==
    ThermalRuns \cup SettlingRuns \cup PopulationRuns \cup ShallowRuns
        \cup BandEdgeRuns \cup VerticalRuns

IDs == 1..MaxParticles

-----------------------------------------------------------------------------
(* State helpers *)

N == Len(elements)
Active == { elements[i].ID : i \in 1..N }
T_of(i) == environment[i].T
depth_of(i) == environment[i].depth

(* deactivate_elements(mask, reason): the request reaches the framework *)
deactivate_elements(req, ids, reason) ==
    [id \in DOMAIN req |-> IF id \in ids THEN Append(req[id], reason) ELSE req[id]]

Evaluated(chk, ids, name) ==
    [id \in DOMAIN chk |-> IF id \in ids THEN Append(chk[id], name) ELSE chk[id]]

Init ==
    /\ cfg \in Configs
    /\ time = cfg.start_hour
    /\ t0 = None
    /\ sublethal_run = None
    /\ elements = [i \in 1..cfg.n |-> HardClamElement(i, 0, -9)]
    /\ sublethal_run_max = [i \in 1..cfg.n |-> 0]
    /\ elements_deactivated = <<>>
    /\ environment = <<>>
    /\ requests = [id \in IDs |-> <<>>]
    /\ checks = [id \in IDs |-> <<>>]
    /\ held = [id \in IDs |-> {}]
    /\ solo = [id \in IDs |-> [run |-> 0, run_max |-> 0]]
    /\ pc = "transport"
    /\ steps = 0
    /\ crashed = FALSE
    /\ args = <<>>
    /\ result = <<>>
    /\ locals = <<>>
    /\ previous = <<>>
    /\ np_random = 0

(* update, lines 183-197: first-frame initialisation, then the framework's  *)
(* transport moves every particle and supplies the environment samples.     *)
(* Horizontal advection always runs; the vertical position is moved by      *)
(* vertical advection and by vertical mixing, each only if enabled.         *)
advect ==
    /\ pc = "transport"
    /\ ~crashed
    /\ N > 0
    /\ \E Ts \in [1..N -> cfg.temps], Zs \in [1..N -> cfg.zs] :
        /\ elements' = [i \in 1..N |->
                           [elements[i] EXCEPT
                               !.lat = @ + 1,
                               !.z = IF cfg.vertical_advection \/ cfg.vertical_mixing
                                     THEN Zs[i] ELSE @]]
        /\ environment' = [i \in 1..N |-> [T |-> Ts[i], depth |-> cfg.depth]]
        /\ held' = [id \in IDs |->
                       IF \E i \in 1..N : elements[i].ID = id
                       THEN held[id] \cup
                            {Ts[CHOOSE i \in 1..N : elements[i].ID = id]}
                       ELSE held[id]]
    /\ t0' = IF t0 = None THEN <<time>> ELSE t0
    /\ sublethal_run' = IF t0 = None THEN <<[i \in 1..N |-> 0]>> ELSE sublethal_run
    /\ checks' = [id \in IDs |-> <<>>]
    /\ pc' = "hot"
    /\ UNCHANGED <<stats_vars, cfg, time, sublethal_run_max,
                   elements_deactivated, requests, solo, steps, crashed>>

(* a timestep of the run: the framework calls update() steps times *)
Transport ==
    /\ steps < MaxSteps
    /\ advect

(* _biology, lines 219-232 *)
LethalExposure ==
    /\ pc = "hot"
    /\ elements' = [i \in 1..N |-> HotExposure(elements[i], T_of(i), cfg)]
    /\ requests' = deactivate_elements(requests,
                       { elements'[i].ID : i \in { j \in 1..N : to_kill_hot(elements'[j], cfg) } },
                       "hotkill")
    /\ checks' = IF IsSet(cfg.hotkill_hours) \/ IsSet(cfg.hotkill_consec)
                 THEN Evaluated(checks, Active, "heat_kill")
                 ELSE checks
    /\ pc' = "sublethal"
    /\ UNCHANGED <<stats_vars, cfg, time, t0, sublethal_run, sublethal_run_max,
                   elements_deactivated, environment, held, solo, steps, crashed>>

(* _biology, lines 234-244.  np.where raises when the model-level array and *)
(* the element arrays do not broadcast; line 236 has run by then.           *)
SublethalExposure ==
    /\ pc = "sublethal"
    /\ LET cond == [i \in 1..N |-> T_of(i) >= T_sublethal]
           run == Val(sublethal_run)
       IN IF Broadcastable(N, Len(run))
          THEN /\ sublethal_run' = <<np_where_run(cond, run, cfg.dt_h)>>
               /\ sublethal_run_max' =
                      np_maximum(sublethal_run_max, Val(sublethal_run'))
               /\ elements' = [i \in 1..N |->
                     SublethalDegH(SublethalHours(elements[i], T_of(i), cfg),
                                   T_of(i), cfg)]
               /\ solo' = [id \in IDs |->
                     IF \E i \in 1..N : elements[i].ID = id
                     THEN LET i == CHOOSE j \in 1..N : elements[j].ID = id
                              r == np_where_run(<<cond[i]>>, <<solo[id].run>>,
                                                cfg.dt_h)[1]
                          IN [run |-> r, run_max |-> Max(solo[id].run_max, r)]
                     ELSE solo[id]]
               /\ pc' = "egg"
               /\ UNCHANGED crashed
          ELSE /\ elements' = [i \in 1..N |->
                     SublethalHours(elements[i], T_of(i), cfg)]
               /\ crashed' = TRUE
               /\ pc' = "raised"
               /\ UNCHANGED <<sublethal_run, sublethal_run_max, solo>>
    /\ UNCHANGED <<stats_vars, cfg, time, t0, elements_deactivated, environment, requests,
                   checks, held, steps>>

(* _biology, lines 246-289 *)
EggStageUpdate ==
    /\ pc = "egg"
    /\ elements' = [i \in 1..N |->
                       EggStage(elements[i], T_of(i), cfg, hours_since_start)]
    /\ checks' = Evaluated(checks,
                     { elements[i].ID : i \in { j \in 1..N : elements[j].stage = 0 } },
                     "hatching")
    /\ pc' = "larva"
    /\ UNCHANGED <<stats_vars, cfg, time, t0, sublethal_run, sublethal_run_max,
                   elements_deactivated, environment, requests, held, solo,
                   steps, crashed>>

(* LarvaStageUpdate with the stagnation check moved before development *)
LarvaStageUpdate_StagnationFirst ==
    /\ pc = "larva"
    /\ elements' = [i \in 1..N |->
                       LarvaDevelopment(elements[i], T_of(i), cfg, hours_since_start)]
    /\ requests' = deactivate_elements(requests,
                       { elements[i].ID : i \in { j \in 1..N : stagn(elements[j], cfg) } },
                       "larval_cold_stagnant")
    /\ LET larva == { elements[i].ID : i \in { j \in 1..N : elements[j].stage = 1 } }
           c1 == IF IsSet(cfg.cold_stagnant_days)
                 THEN Evaluated(checks, larva, "cold_stagnation")
                 ELSE checks
       IN checks' = Evaluated(c1, larva, "competency")
    /\ pc' = "larva_stats"
    /\ UNCHANGED <<stats_vars, cfg, time, t0, sublethal_run, sublethal_run_max,
                   elements_deactivated, environment, held, solo, steps, crashed>>

(* _biology, lines 291-319 *)
LarvaStageUpdate ==
    /\ pc = "larva"
    /\ elements' = [i \in 1..N |->
                       LarvaDevelopment(elements[i], T_of(i), cfg, hours_since_start)]
    /\ requests' = deactivate_elements(requests,
                       { elements'[i].ID : i \in { j \in 1..N : stagn(elements'[j], cfg) } },
                       "larval_cold_stagnant")
    /\ LET larva == { elements[i].ID : i \in { j \in 1..N : elements[j].stage = 1 } }
           c1 == Evaluated(checks, larva, "competency")
       IN checks' = IF IsSet(cfg.cold_stagnant_days)
                    THEN Evaluated(c1, larva, "cold_stagnation")
                    ELSE c1
    /\ pc' = "larva_stats"
    /\ UNCHANGED <<stats_vars, cfg, time, t0, sublethal_run, sublethal_run_max,
                   elements_deactivated, environment, held, solo, steps, crashed>>

(* _biology, lines 321-356 *)
LarvaStatisticsUpdate ==
    /\ pc = "larva_stats"
    /\ elements' = [i \in 1..N |->
                       LarvaStatistics(elements[i], T_of(i), depth_of(i), cfg,
                                       time % 24)]
    /\ pc' = "settle"
    /\ UNCHANGED <<stats_vars, cfg, time, t0, sublethal_run, sublethal_run_max,
                   elements_deactivated, environment, requests, checks, held,
                   solo, steps, crashed>>

(* _biology, lines 358-382 *)
Settlement ==
    /\ pc = "settle"
    /\ LET idx_done == { i \in 1..N : done(elements[i], depth_of(i), cfg) }
       IN /\ elements' = [i \in 1..N |->
                             IF i \in idx_done
                             THEN Settle(elements[i], hours_since_start)
                             ELSE elements[i]]
          /\ requests' = deactivate_elements(requests,
                             { elements[i].ID : i \in idx_done }, "larval_complete")
    /\ checks' = IF cfg.stop_when_larva_complete
                 THEN Evaluated(checks,
                          { elements[i].ID : i \in { j \in 1..N : elements[j].stage = 1 } },
                          "settlement")
                 ELSE checks
    /\ pc' = "distance"
    /\ UNCHANGED <<stats_vars, cfg, time, t0, sublethal_run, sublethal_run_max,
                   elements_deactivated, environment, held, solo, steps, crashed>>

(* update, lines 202-208 *)
UpdateFinalDistance ==
    /\ pc = "distance"
    /\ elements' = [i \in 1..N |-> FinalDistance(elements[i])]
    /\ pc' = "remove"
    /\ UNCHANGED <<stats_vars, cfg, time, t0, sublethal_run, sublethal_run_max,
                   elements_deactivated, environment, requests, checks, held,
                   solo, steps, crashed>>

(* The framework ends the step: it moves every particle with a deactivation *)
(* request out of the element arrays (boolean-mask indexing of each array,  *)
(* which raises on an array of another length) and advances the clock.      *)
RemoveDeactivated ==
    /\ pc = "remove"
    /\ LET drop == { i \in 1..N : requests[elements[i].ID] # <<>> }
       IN IF drop = {}
          THEN UNCHANGED <<elements, sublethal_run_max, elements_deactivated,
                           crashed>>
                /\ pc' = "transport" /\ time' = time + cfg.dt_h /\ steps' = steps + 1
          ELSE IF Len(sublethal_run_max) # N
          THEN /\ crashed' = TRUE
               /\ pc' = "raised"
               /\ UNCHANGED <<elements, sublethal_run_max, elements_deactivated,
                              time, steps>>
          ELSE /\ elements_deactivated' = elements_deactivated \o
                      [k \in 1..Cardinality(drop) |->
                          LET i == CHOOSE j \in drop :
                                     Cardinality({ d \in drop : d < j }) = k - 1
                          IN elements[i] @@ [sublethal_run_max |-> sublethal_run_max[i]]]
               /\ elements' = Compress(elements, drop, 1)
               /\ sublethal_run_max' = Compress(sublethal_run_max, drop, 1)
               /\ pc' = "transport" /\ time' = time + cfg.dt_h /\ steps' = steps + 1
               /\ UNCHANGED crashed
    /\ UNCHANGED <<stats_vars, cfg, t0, sublethal_run, environment, requests, checks, held, solo>>

Next ==
    \/ Transport
    \/ LethalExposure
    \/ SublethalExposure
    \/ EggStageUpdate
    \/ LarvaStageUpdate
    \/ LarvaStatisticsUpdate
    \/ Settlement
    \/ UpdateFinalDistance
    \/ RemoveDeactivated

Spec == Init /\ [][Next]_vars

-----------------------------------------------------------------------------
(* Views of the state used by the properties *)

Seeded == 1..cfg.n
IsActive(id) == \E i \in 1..N : elements[i].ID = id
Index(id) == CHOOSE i \in 1..N : elements[i].ID = id

(* every field of a particle, wherever the framework keeps it *)
Particle(id) ==
    IF IsActive(id)
    THEN elements[Index(id)] @@ [sublethal_run_max |-> sublethal_run_max[Index(id)]]
    ELSE elements_deactivated[CHOOSE k \in 1..Len(elements_deactivated) :
                                  elements_deactivated[k].ID = id]

Has(seq, x) == \E k \in 1..Len(seq) : seq[k] = x

(* the phases of update() that follow a given block of _biology *)
AfterLethal == {"sublethal", "egg", "larva", "larva_stats", "settle", "distance", "remove"}
AfterEgg == {"larva", "larva_stats", "settle", "distance", "remove"}
AfterLarva == {"larva_stats", "settle", "distance", "remove"}
AfterSettlement == {"distance", "remove"}
BeforeStagnation == {"transport", "hot", "sublethal", "egg", "larva"}
BeforeSettlement == BeforeStagnation \cup {"larva_stats", "settle"}

-----------------------------------------------------------------------------
(* C1: once a deactivation has been requested for a particle, no step of    *)
(* update() changes any of its fields any more, in the same call or later.  *)
C1_NoMutationAfterDeactivation ==
    [][\A id \in Seeded :
          requests[id] # <<>> => Particle(id)' = Particle(id)]_vars

(* C2: the checks of one timestep run in the order hatching, competency,    *)
(* cold stagnation, heat kill: no hatching, competency or cold-stagnation   *)
(* check of a particle follows its heat-kill check.                         *)
C2_HeatKillLast ==
    \A id \in Seeded : \A i, j \in 1..Len(checks[id]) :
        (i < j /\ checks[id][i] = "heat_kill")
            => checks[id][j] \notin {"hatching", "competency", "cold_stagnation"}

(* C2 as amended: the order is heat kill, hatching, competency, cold        *)
(* stagnation, settlement; each check runs at most once per timestep.       *)
CheckRank(name) ==
    CASE name = "heat_kill" -> 1
      [] name = "hatching" -> 2
      [] name = "competency" -> 3
      [] name = "cold_stagnation" -> 4
      [] name = "settlement" -> 5

C2_HeatKillFirst ==
    \A id \in Seeded : \A i, j \in 1..Len(checks[id]) :
        i < j => CheckRank(checks[id][i]) < CheckRank(checks[id][j])

C2_AllFiveChecks ==
    \E id \in Seeded :
        checks[id] = <<"heat_kill", "hatching", "competency",
                       "cold_stagnation", "settlement">>

(* C3: a particle receives at most one deactivation request in a timestep.  *)
(* (A particle leaves the arrays at the end of the timestep of its first    *)
(* request, so all its requests are issued by one _biology call.)           *)
C3_AtMostOneDeactivation ==
    \A id \in Seeded : Len(requests[id]) <= 1

(* One timestep of length dt against two of dt/2 at the same temperature.   *)
(* The second half-step runs only if the first left the particle active.    *)
HalfStep == [cfg EXCEPT !.dt_h = cfg.dt_h \div 2]
FullRun(p, T) == Biology(p, T, cfg.depth, cfg, hours_since_start, time % 24)
FirstHalf(p, T) == Biology(p, T, cfg.depth, HalfStep, hours_since_start, time % 24)
FirstHalfDeactivates(p, T) ==
    Deactivates(p, T, cfg.depth, HalfStep, hours_since_start, time % 24)
SplitRun(p, T) ==
    IF FirstHalfDeactivates(p, T)
    THEN FirstHalf(p, T)
    ELSE Biology(FirstHalf(p, T), T, cfg.depth, HalfStep,
                 hours_since_start + HalfStep.dt_h, (time + HalfStep.dt_h) % 24)
SameDevelopment(p, q) ==
    p.acc_deg_h = q.acc_deg_h /\ p.stage = q.stage /\ p.progress = q.progress
HatchesInSecondHalf(p, T) == FirstHalf(p, T).stage = 0 /\ SplitRun(p, T).stage = 1

(* C4: for every particle state and every constant temperature, one update  *)
(* with step dt leaves the same acc_deg_h, stage and progress as two        *)
(* updates with step dt/2.                                                  *)
C4_StepSplittingAdditive ==
    pc = "transport" =>
        \A i \in 1..N : \A T \in cfg.temps :
            SameDevelopment(FullRun(elements[i], T), SplitRun(elements[i], T))

(* C4 as amended: the same, for the intervals in which the particle is not  *)
(* deactivated by the first half-step and does not hatch in the second.     *)
C4_StepSplittingAdditiveWithinStage ==
    pc = "transport" =>
        \A i \in 1..N : \A T \in cfg.temps :
            (~FirstHalfDeactivates(elements[i], T)
                 /\ ~HatchesInSecondHalf(elements[i], T))
            => SameDevelopment(FullRun(elements[i], T), SplitRun(elements[i], T))

(* an egg that crosses the hatching threshold in the first half-step, and a *)
(* larva that becomes competent inside the interval                         *)
C4_CrossingCovered ==
    /\ pc = "transport"
    /\ \E i \in 1..N : \E T \in cfg.temps :
          /\ elements[i].stage = 0
          /\ elements[i].acc_deg_h > 0
          /\ FirstHalf(elements[i], T).stage = 1
          /\ ~FirstHalfDeactivates(elements[i], T)
          /\ SplitRun(elements[i], T).acc_deg_h > 0

(* C5: a particle's sublethal_run_max is what its own temperature history   *)
(* gives, whatever other particles exist or have been removed, and the      *)
(* update never raises because of them.                                     *)
C5_NoSharedBookkeeping ==
    /\ ~crashed
    /\ \A i \in 1..N :
          i <= Len(sublethal_run_max)
              => sublethal_run_max[i] = solo[elements[i].ID].run_max

-----------------------------------------------------------------------------
(* Timesteps whose lethal / egg / larva block has run for the active        *)
(* particles: the completed updates plus the one in progress.               *)
LethalBlocksRun == steps + (IF pc \in AfterLethal THEN 1 ELSE 0)
EggBlocksRun == steps + (IF pc \in AfterEgg THEN 1 ELSE 0)

(* the first timestep n with n * (T - T0_egg) * dt >= K_egg *)
FirstHatchStep(T) ==
    (K_egg + (T - T0_egg) * cfg.dt_h - 1) \div ((T - T0_egg) * cfg.dt_h)

(* C6: an egg held at a constant temperature T > T0_egg hatches in the      *)
(* first timestep n with n * (T - T0_egg) * dt >= K_egg, recording the time *)
(* and position of that timestep, and in no earlier one; until then it is   *)
(* an egg with progress < 1.0.                                              *)
C6_HatchesAtFirstSufficientStep ==
    ~crashed =>
    \A id \in Seeded : \A T \in cfg.temps :
        (held[id] = {T} /\ T > T0_egg) =>
            LET p == Particle(id)
                n == FirstHatchStep(T)
            IN /\ p.stage = 1 =>
                     /\ p.hatch_time_h = <<(n - 1) * cfg.dt_h>>
                     /\ p.hatch_lon = <<0>>
                     /\ p.hatch_lat = <<n>>
                     /\ p.hatch_distance_km = <<KmPerDegree * n>>
                     /\ p.egg_hours = n * cfg.dt_h
               /\ p.stage = 0 =>
                     /\ IsNaN(p.hatch_time_h)
                     /\ IsNaN(p.hatch_lat)
                     /\ p.progress < ProgressOne
               /\ IsActive(id) => (p.stage = 1 <=> EggBlocksRun >= n)

C6_HatchedAfterSeveralSteps ==
    /\ ~crashed
    /\ \E id \in Seeded : \E T \in cfg.temps :
          /\ held[id] = {T}
          /\ Particle(id).stage = 1
          /\ FirstHatchStep(T) > 2
          /\ Particle(id).hatch_time_h = <<(FirstHatchStep(T) - 1) * cfg.dt_h>>

(* C7: a cold-stagnation request is issued only for a cold run that exceeds *)
(* cold_stagnant_days * 24 hours.                                           *)
C7_StagnationOnlyBeyondLimit ==
    \A id \in Seeded :
        Has(requests[id], "larval_cold_stagnant")
            => Particle(id).cold_run > 24 * Val(cfg.cold_stagnant_days)

(* C7 as amended: a larva is deactivated with reason larval_cold_stagnant   *)
(* in a timestep exactly when its progress is < 1.0 and its consecutive     *)
(* cold run (T <= T0_larva, reset to 0 by a warmer step) has reached        *)
(* cold_stagnant_days * 24 hours (>=).                                      *)
C7_StagnationAtLimit ==
    \A id \in Seeded :
        LET p == Particle(id)
            req == Has(requests[id], "larval_cold_stagnant")
        IN /\ req => /\ IsSet(cfg.cold_stagnant_days)
                     /\ p.stage = 1
                     /\ p.progress < ProgressOne
                     /\ p.cold_run >= 24 * Val(cfg.cold_stagnant_days)
           /\ (IsActive(id) /\ pc \in AfterLarva /\ p.stage = 1) =>
                 /\ ( /\ IsSet(cfg.cold_stagnant_days)
                      /\ p.progress < ProgressOne
                      /\ p.cold_run >= 24 * Val(cfg.cold_stagnant_days) ) => req
                 /\ T_of(Index(id)) > T0_larva => p.cold_run = 0
                 /\ T_of(Index(id)) <= T0_larva => p.cold_run >= cfg.dt_h
                 /\ (\E T \in cfg.temps : held[id] = {T} /\ T <= T0_larva)
                        => p.cold_run = p.age_h
           /\ (IsActive(id) /\ pc \in BeforeStagnation) => ~req

C7_StagnantExactlyAtLimit ==
    \E id \in Seeded :
        /\ Has(requests[id], "larval_cold_stagnant")
        /\ Particle(id).cold_run = 24 * Val(cfg.cold_stagnant_days)
        /\ Particle(id).cold_hours > Particle(id).cold_run

(* C8: a heat-kill request is issued only when hot_hours exceeds            *)
(* hotkill_hours or hot_run exceeds hotkill_consec.                         *)
C8_HeatKillOnlyBeyondThreshold ==
    \A id \in Seeded :
        Has(requests[id], "hotkill") =>
            \/ IsSet(cfg.hotkill_hours)
                  /\ Particle(id).hot_hours > Val(cfg.hotkill_hours)
            \/ IsSet(cfg.hotkill_consec)
                  /\ Particle(id).hot_run > Val(cfg.hotkill_consec)

(* C8 as amended: a particle is flagged for heat deactivation in a timestep *)
(* exactly when hotkill_hours is set and its cumulative hot_hours (time     *)
(* with T >= Tcrit) has reached it (>=), or hotkill_consec is set and its   *)
(* current hot_run has reached it (>=); either trigger alone suffices.      *)
C8_HeatKillAtThreshold ==
    \A id \in Seeded :
        LET p == Particle(id)
            req == Has(requests[id], "hotkill")
            reached ==
                \/ cfg.hotkill_hours # None /\ Val(cfg.hotkill_hours) > 0
                      /\ p.hot_hours >= Val(cfg.hotkill_hours)
                \/ cfg.hotkill_consec # None /\ Val(cfg.hotkill_consec) > 0
                      /\ p.hot_run >= Val(cfg.hotkill_consec)
        IN /\ req => reached
           /\ (IsActive(id) /\ pc \in AfterLethal) =>
                 /\ reached => req
                 /\ T_of(Index(id)) < Tcrit => p.hot_run = 0
                 /\ \A T \in cfg.temps : held[id] = {T} =>
                        p.hot_hours = (IF T >= Tcrit THEN LethalBlocksRun * cfg.dt_h
                                       ELSE 0)
           /\ (IsActive(id) /\ pc \in {"transport", "hot"}) => ~req

(* killed by the cumulative trigger alone, both triggers being set *)
C8_CumulativeTriggerAlone ==
    \E id \in Seeded :
        /\ Has(requests[id], "hotkill")
        /\ IsSet(cfg.hotkill_hours) /\ IsSet(cfg.hotkill_consec)
        /\ Particle(id).hot_hours = Val(cfg.hotkill_hours)
        /\ Particle(id).hot_run < Val(cfg.hotkill_consec)

(* C9: an unset threshold disables its trigger: without hotkill_hours and   *)
(* hotkill_consec nothing is ever heat-killed, with one of them only that   *)
(* trigger fires, without cold_stagnant_days nothing dies of cold           *)
(* stagnation; the exposure counters are updated all the same.              *)
C9_UnsetThresholdDisables ==
    \A id \in Seeded :
        LET p == Particle(id)
            hot == Has(requests[id], "hotkill")
        IN /\ (cfg.hotkill_hours = None /\ cfg.hotkill_consec = None) => ~hot
           /\ (cfg.hotkill_hours = None /\ hot)
                 => p.hot_run >= Val(cfg.hotkill_consec)
           /\ (cfg.hotkill_consec = None /\ hot)
                 => p.hot_hours >= Val(cfg.hotkill_hours)
           /\ cfg.cold_stagnant_days = None
                 => ~Has(requests[id], "larval_cold_stagnant")
           /\ (IsActive(id) /\ pc \in AfterLethal /\ T_of(Index(id)) >= Tcrit)
                 => /\ p.hot_run >= cfg.dt_h
                    /\ p.hot_hours >= p.hot_run
                    /\ p.hot_run_max >= p.hot_run
           /\ (IsActive(id) /\ pc \in AfterLarva /\ p.stage = 1
                  /\ T_of(Index(id)) <= T0_larva)
                 => /\ p.cold_run >= cfg.dt_h
                    /\ p.cold_hours >= p.cold_run
                    /\ p.cold_run_max >= p.cold_run

(* still active beyond both limits another run would have *)
C9_SurvivesWithThresholdsUnset ==
    \E id \in Seeded :
        /\ cfg.hotkill_hours = None /\ cfg.hotkill_consec = None
        /\ cfg.cold_stagnant_days = None
        /\ IsActive(id) /\ requests[id] = <<>> /\ pc = "transport"
        /\ Particle(id).hot_run_max >= 48
        /\ Particle(id).cold_run >= 48
        /\ Particle(id).progress < ProgressOne

(* C10: a particle settles in a timestep (settlement recorded, reason       *)
(* larval_complete) if and only if stop_when_larva_complete is enabled, it  *)
(* is a larva with progress >= 1.0 and, when settle_require_bottom is       *)
(* enabled, its vertical position after the migration shift is within       *)
(* settle_bottom_buffer_m of the floor; otherwise it does not settle.       *)
C10_SettlesIffComplete ==
    /\ \A i \in 1..N :
          LET p == elements[i]
              req == Has(requests[p.ID], "larval_complete")
              cond == /\ cfg.stop_when_larva_complete
                      /\ p.stage = 1
                      /\ p.progress >= ProgressOne
                      /\ (cfg.settle_require_bottom =>
                             -p.z >= depth_of(i) - settle_bottom_buffer_m)
          IN IF pc \in AfterSettlement
             THEN /\ req <=> cond
                  /\ p.settled_flag = 1 <=> cond
                  /\ cond => /\ p.settle_time_h = <<hours_since_start>>
                             /\ p.settle_lon = <<p.lon>>
                             /\ p.settle_lat = <<p.lat>>
                             /\ p.settle_distance_km =
                                    <<KmPerDegree * (p.lat - p.release_lat)>>
                  /\ ~cond => IsNaN(p.settle_time_h) /\ IsNaN(p.settle_lat)
             ELSE pc \in BeforeSettlement
                     => ~req /\ p.settled_flag = 0 /\ IsNaN(p.settle_time_h)
    /\ \A id \in Seeded :
          ~cfg.stop_when_larva_complete =>
              /\ Particle(id).settled_flag = 0
              /\ ~Has(requests[id], "larval_complete")

(* settles on the position the migration gave it: never near the bottom     *)
(* when the transport left it, near the bottom after the shift              *)
C10_SettledAfterMigration ==
    \E i \in 1..N :
        /\ pc \in AfterSettlement
        /\ cfg.settle_require_bottom /\ cfg.dvm_speed > 0
        /\ elements[i].settled_flag = 1
        /\ elements[i].near_bottom_hours_larva = 0
        /\ Has(requests[elements[i].ID], "larval_complete")

(* C11: the stage of a particle only moves forward: it is egg (0) or larva  *)
(* (1) at all times, a larva never becomes an egg again, and a particle     *)
(* settles only from the larva stage, never directly from the egg stage.    *)
C11_StageOnlyForward ==
    /\ [](\A id \in Seeded : Particle(id).stage \in {0, 1})
    /\ [][\A id \in Seeded :
             /\ Particle(id).stage = 1 => Particle(id)'.stage = 1
             /\ (Particle(id).settled_flag = 0 /\ Particle(id)'.settled_flag = 1)
                    => Particle(id).stage = 1 /\ Particle(id)'.stage = 1]_vars

(* a particle that hatched in one timestep and settled in a later one *)
C11_HatchedThenSettled ==
    \E id \in Seeded :
        /\ Particle(id).stage = 1
        /\ Particle(id).settled_flag = 1
        /\ ~IsNaN(Particle(id).hatch_time_h)
        /\ ~IsNaN(Particle(id).settle_time_h)
        /\ Val(Particle(id).hatch_time_h) < Val(Particle(id).settle_time_h)

(* C12: for every particle progress equals min(1, acc_deg_h / K_stage) of   *)
(* its current stage, so 0 <= progress <= 1; and hatching, becoming         *)
(* competent and settling happen only to a particle whose progress at that  *)
(* instant is >= 1.0 (for hatching: the egg's accumulated degree-hours of   *)
(* that timestep have reached K_egg, before the reset for the larval stage).*)
C12_ProgressIsClampedRatio ==
    /\ [](\A id \in Seeded :
            LET p == Particle(id)
                K == IF p.stage = 0 THEN K_egg ELSE K_larva
                ratio == (p.acc_deg_h * ProgressOne) \div K
            IN /\ p.progress = (IF ratio > ProgressOne THEN ProgressOne ELSE ratio)
               /\ p.progress >= 0 /\ p.progress <= ProgressOne)
    /\ [][\A id \in Seeded :
            LET p == Particle(id)
                q == Particle(id)'
            IN /\ (p.stage = 0 /\ q.stage = 1) =>
                      /\ IsActive(id)
                      /\ p.acc_deg_h
                           + Max(0, T_of(Index(id)) - T0_egg) * cfg.dt_h >= K_egg
               /\ (p.competent = 0 /\ q.competent = 1) =>
                      q.progress >= ProgressOne /\ q.acc_deg_h >= K_larva
               /\ (p.settled_flag = 0 /\ q.settled_flag = 1) =>
                      /\ p.progress >= ProgressOne /\ q.progress >= ProgressOne
                      /\ q.acc_deg_h >= K_larva]_vars

(* between two timesteps: a competent larva whose degree-hours exceed the   *)
(* requirement (the clamp acts) and that hatched from an egg                *)
C12_ClampedCompetentLarva ==
    \E id \in Seeded :
        /\ pc = "transport" /\ steps > 0
        /\ IsActive(id)
        /\ Particle(id).stage = 1 /\ Particle(id).competent = 1
        /\ Particle(id).acc_deg_h > K_larva
        /\ Particle(id).progress = ProgressOne
        /\ ~IsNaN(Particle(id).hatch_time_h)

(* C13: settlement fields and deactivation reason agree: a particle has     *)
(* settled_flag = 1 and a settle_time_h that is not NaN if and only if it   *)
(* was deactivated with reason larval_complete; a particle deactivated with *)
(* reason hotkill or larval_cold_stagnant, and a particle with no           *)
(* deactivation, has settled_flag = 0 and settle_time_h = NaN.              *)
C13_SettledIffLarvalComplete ==
    \A id \in Seeded :
        LET p == Particle(id)
        IN /\ (p.settled_flag = 1 /\ ~IsNaN(p.settle_time_h))
                  <=> Has(requests[id], "larval_complete")
           /\ (Has(requests[id], "hotkill")
                  \/ Has(requests[id], "larval_cold_stagnant")
                  \/ requests[id] = <<>>)
                  => p.settled_flag = 0 /\ IsNaN(p.settle_time_h)

(* C14: each lifecycle record is written at most once per particle: once    *)
(* hatch_time_h, hatch_lon, hatch_lat, hatch_distance_km, competent_time_h, *)
(* settle_time_h, settle_lon, settle_lat or settle_distance_km holds a      *)
(* value it never changes again, and competent never returns from 1 to 0.   *)
C14_RecordsWrittenOnce ==
    [][\A id \in Seeded :
          LET p == Particle(id)
              q == Particle(id)'
          IN /\ ~IsNaN(p.hatch_time_h) => q.hatch_time_h = p.hatch_time_h
             /\ ~IsNaN(p.hatch_lon) => q.hatch_lon = p.hatch_lon
             /\ ~IsNaN(p.hatch_lat) => q.hatch_lat = p.hatch_lat
             /\ ~IsNaN(p.hatch_distance_km)
                    => q.hatch_distance_km = p.hatch_distance_km
             /\ ~IsNaN(p.competent_time_h)
                    => q.competent_time_h = p.competent_time_h
             /\ ~IsNaN(p.settle_time_h) => q.settle_time_h = p.settle_time_h
             /\ ~IsNaN(p.settle_lon) => q.settle_lon = p.settle_lon
             /\ ~IsNaN(p.settle_lat) => q.settle_lat = p.settle_lat
             /\ ~IsNaN(p.settle_distance_km)
                    => q.settle_distance_km = p.settle_distance_km
             /\ p.competent = 1 => q.competent = 1]_vars

(* a larva still active two timesteps after it became competent, at another *)
(* position than the one of its hatching                                    *)
C14_CompetentLarvaKeepsDrifting ==
    \E id \in Seeded :
        /\ IsActive(id)
        /\ Particle(id).competent = 1
        /\ ~IsNaN(Particle(id).competent_time_h)
        /\ hours_since_start >= Val(Particle(id).competent_time_h) + 2 * cfg.dt_h
        /\ Particle(id).progress >= ProgressOne
        /\ Val(Particle(id).hatch_lat) < Particle(id).lat

(* C15: after the diel vertical migration every larva lies between 0.5 m    *)
(* below the surface and 0.5 m above the local floor,                       *)
(* -depth + 0.5 <= z <= -0.5, whatever the floor depth and the speed.       *)
C15_MigrationStaysInWaterColumn ==
    \A i \in 1..N :
        (pc \in {"settle", "distance", "remove"}
            /\ cfg.dvm_speed > 0 /\ elements[i].stage = 1)
            => /\ -depth_of(i) + 1 <= elements[i].z
               /\ elements[i].z <= -1

(* the cumulative exposure counters of a particle *)
CumulativeCounters ==
    {"hot_hours", "cold_hours", "sublethal_hours_total", "sublethal_hours_egg",
     "sublethal_hours_larva", "opt_hours_egg", "opt_below_hours_egg",
     "opt_above_hours_egg", "opt_hours_larva", "opt_below_hours_larva",
     "opt_above_hours_larva", "sublethal_deg_h_total", "cold_deg_h_egg",
     "hot_deg_h_egg", "cold_deg_h_larva", "hot_deg_h_larva",
     "hot_run_max", "cold_run_max", "sublethal_run_max"}

(* C16: the cumulative exposure counters never decrease over a particle's   *)
(* life; hot_run is 0 after a timestep with T < Tcrit and grows by dt       *)
(* otherwise, cold_run is 0 after a timestep in which the particle is not a *)
(* larva with T <= T0_larva and grows by dt otherwise; in every state       *)
(* hot_run <= hot_run_max <= hot_hours and                                  *)
(* cold_run <= cold_run_max <= cold_hours.                                  *)
C16_CountersMonotoneRunsReset ==
    /\ [](\A id \in Seeded : \A p \in {Particle(id)} :
               /\ 0 <= p.hot_run /\ p.hot_run <= p.hot_run_max
               /\ p.hot_run_max <= p.hot_hours
               /\ 0 <= p.cold_run /\ p.cold_run <= p.cold_run_max
               /\ p.cold_run_max <= p.cold_hours)
    /\ [][\A id \in Seeded : \A p \in {Particle(id)} : \A q \in {Particle(id)'} :
               /\ \A f \in CumulativeCounters : q[f] >= p[f]
               /\ q.hot_run =
                      (IF IsActive(id) /\ pc = "hot"
                       THEN (IF T_of(Index(id)) >= Tcrit
                             THEN p.hot_run + cfg.dt_h ELSE 0)
                       ELSE p.hot_run)
               /\ q.cold_run =
                      (IF IsActive(id) /\ pc = "larva"
                       THEN (IF p.stage = 1 /\ T_of(Index(id)) <= T0_larva
                             THEN p.cold_run + cfg.dt_h ELSE 0)
                       ELSE p.cold_run)]_vars

(* both runs back at 0 after two separate hot and two separate cold spells  *)
C16_RunsResetAfterTwoSpells ==
    \E id \in Seeded :
        LET p == Particle(id)
        IN /\ p.hot_run = 0 /\ 0 < p.hot_run_max /\ p.hot_run_max < p.hot_hours
           /\ p.cold_run = 0 /\ 0 < p.cold_run_max
           /\ p.cold_run_max < p.cold_hours

(* C17: a timestep counts as optimal-band hours of the particle's stage     *)
(* only when the temperature is strictly inside the band, Tlow < T < Thigh, *)
(* as below-band hours only when T < Tlow and as above-band hours only when *)
(* T > Thigh; a temperature equal to a bound is not counted as inside.      *)
C17_OptimalBandStrict ==
    [][\A id \in Seeded : \A p \in {Particle(id)} : \A q \in {Particle(id)'} :
          /\ q.opt_hours_egg > p.opt_hours_egg
                => /\ Topt_low_egg < T_of(Index(id))
                   /\ T_of(Index(id)) < Topt_high_egg
          /\ q.opt_below_hours_egg > p.opt_below_hours_egg
                => T_of(Index(id)) < Topt_low_egg
          /\ q.opt_above_hours_egg > p.opt_above_hours_egg
                => T_of(Index(id)) > Topt_high_egg
          /\ q.opt_hours_larva > p.opt_hours_larva
                => /\ Topt_low_larva < T_of(Index(id))
                   /\ T_of(Index(id)) < Topt_high_larva
          /\ q.opt_below_hours_larva > p.opt_below_hours_larva
                => T_of(Index(id)) < Topt_low_larva
          /\ q.opt_above_hours_larva > p.opt_above_hours_larva
                => T_of(Index(id)) > Topt_high_larva]_vars

(* C17 as amended: the band includes its bounds.  A timestep of an egg adds *)
(* dt to opt_hours_egg exactly when Tlow <= T <= Thigh, to                  *)
(* opt_below_hours_egg exactly when T < Tlow and to opt_above_hours_egg     *)
(* exactly when T > Thigh; likewise for a larva with the larval band; the   *)
(* counters change nowhere else.                                            *)
C17_OptimalBandInclusive ==
    [][\A id \in Seeded : \A p \in {Particle(id)} : \A q \in {Particle(id)'} :
          LET egg == IsActive(id) /\ pc = "egg" /\ p.stage = 0
              larva == IsActive(id) /\ pc = "larva_stats" /\ p.stage = 1
              T == T_of(Index(id))
              dt == cfg.dt_h
          IN /\ q.opt_hours_egg - p.opt_hours_egg =
                    (IF egg /\ Topt_low_egg <= T /\ T <= Topt_high_egg
                     THEN dt ELSE 0)
             /\ q.opt_below_hours_egg - p.opt_below_hours_egg =
                    (IF egg /\ T < Topt_low_egg THEN dt ELSE 0)
             /\ q.opt_above_hours_egg - p.opt_above_hours_egg =
                    (IF egg /\ T > Topt_high_egg THEN dt ELSE 0)
             /\ q.opt_hours_larva - p.opt_hours_larva =
                    (IF larva /\ Topt_low_larva <= T /\ T <= Topt_high_larva
                     THEN dt ELSE 0)
             /\ q.opt_below_hours_larva - p.opt_below_hours_larva =
                    (IF larva /\ T < Topt_low_larva THEN dt ELSE 0)
             /\ q.opt_above_hours_larva - p.opt_above_hours_larva =
                    (IF larva /\ T > Topt_high_larva THEN dt ELSE 0)]_vars

(* optimal-band hours of both stages earned at band bounds alone *)
C17_OptimalHoursAtBounds ==
    \E id \in Seeded :
        /\ held[id] # {}
        /\ held[id] \subseteq
               {Topt_low_egg, Topt_high_egg, Topt_low_larva, Topt_high_larva}
        /\ Particle(id).opt_hours_egg > 0
        /\ Particle(id).opt_hours_larva > 0

(* the blocks of _biology, in program order, and the order of update() *)
BiologyPhases == {"hot", "sublethal", "egg", "larva", "larva_stats", "settle"}

UpdateOrder ==
    {<<"transport", "hot">>, <<"hot", "sublethal">>, <<"sublethal", "egg">>,
     <<"egg", "larva">>, <<"larva", "larva_stats">>, <<"larva_stats", "settle">>,
     <<"settle", "distance">>, <<"distance", "remove">>,
     <<"remove", "transport">>}

(* C18: every update() keeps the barrier of the timestep: horizontal        *)
(* advection, then vertical advection and vertical mixing (each only if     *)
(* enabled) complete before the biological update starts; the biological    *)
(* update completes before final_distance_km is recomputed, from the        *)
(* positions of that same timestep; no biological state is updated before   *)
(* the transport of the step.                                               *)
C18_TimestepBarrier ==
    /\ [](\A i \in 1..N :
            pc = "remove" =>
                elements[i].final_distance_km =
                    <<KmPerDegree * Abs(elements[i].lat - elements[i].release_lat)>>)
    /\ [][/\ pc' # pc => (<<pc, pc'>> \in UpdateOrder \/ pc' = "raised")
          /\ \A id \in Seeded : \A p \in {Particle(id)} : \A q \in {Particle(id)'} :
               /\ (q.lat # p.lat \/ q.lon # p.lon) => pc = "transport"
               /\ pc = "transport" =>
                     /\ [q EXCEPT !.lat = p.lat, !.z = p.z] = p
                     /\ IsActive(id) => q.lat = p.lat + 1
                     /\ ~(cfg.vertical_advection \/ cfg.vertical_mixing)
                            => q.z = p.z
               /\ pc \in BiologyPhases =>
                     q.final_distance_km = p.final_distance_km
               /\ pc = "distance" =>
                     [q EXCEPT !.final_distance_km = p.final_distance_km] = p
               /\ pc = "remove" => q = p]_vars

(* the final distance of the third timestep, in a run with vertical mixing  *)
(* as the only vertical transport process                                   *)
C18_DistanceOfThirdStep ==
    \E i \in 1..N :
        /\ pc = "remove" /\ steps = 2
        /\ ~cfg.vertical_advection /\ cfg.vertical_mixing
        /\ elements[i].stage = 1
        /\ elements[i].final_distance_km = <<3 * KmPerDegree>>
        /\ Val(elements[i].hatch_distance_km) < 3 * KmPerDegree

-----------------------------------------------------------------------------
(* statistical_utilities.py                                                 *)
(*                                                                          *)
(* Floating point.  A number is <<m, e>> with m odd or <<0, 0>>: the value  *)
(* m * 2^e.  The source computes with 53-bit significands; the model keeps  *)
(* FloatBits bits and rounds in the same way.                               *)

MaxLen == 3
FloatBits == 4

RECURSIVE Pow2(_)
Pow2(k) == IF k <= 0 THEN 1 ELSE 2 * Pow2(k - 1)

RECURSIVE BitLen(_)
BitLen(x) == IF x = 0 THEN 0 ELSE 1 + BitLen(x \div 2)

RECURSIVE Norm(_, _)
Norm(m, e) ==
    IF m = 0 THEN <<0, 0>>
    ELSE IF m % 2 = 0 THEN Norm(m \div 2, e + 1) ELSE <<m, e>>

(* the integer x rounded to FloatBits significant bits: <<q, r>> is q * 2^r *)
RoundSig(x) ==
    LET r == BitLen(x) - FloatBits
    IN IF r <= 0 THEN <<x, 0>>
       ELSE LET q == x \div Pow2(r)
                rem == x % Pow2(r)
                half == Pow2(r - 1)
                up == rem > half \/ (rem = half /\ q % 2 = 1)
            IN <<IF up THEN q + 1 ELSE q, r>>

(* a * n for an integer n, rounded *)
fl_mul(a, n) ==
    LET t == RoundSig(a[1] * n)
    IN Norm(t[1], a[2] + t[2])

(* a / k for an integer k > 0, rounded: the quotient to FloatBits + 3 more  *)
(* bits and a sticky bit for the remainder decide the rounding              *)
fl_div(a, k) ==
    LET g == FloatBits + 3
        num == a[1] * Pow2(g)
        X == 2 * (num \div k) + (IF num % k > 0 THEN 1 ELSE 0)
        t == RoundSig(X)
    IN Norm(t[1], a[2] - g - 1 + t[2])

fl_le(a, b) ==
    LET e == Min(a[2], b[2])
    IN a[1] * Pow2(a[2] - e) <= b[1] * Pow2(b[2] - e)

fl_lt(a, b) == ~fl_le(b, a)

fl_min(a, b) == IF fl_le(a, b) THEN a ELSE b

One == <<1, 0>>

(* What a call does: it returns a value or raises an exception *)
Returned(v) == [raised |-> "", value |-> v]
Raised(exc) == [raised |-> exc, value |-> <<>>]

(* np.argsort(p_values): an order of the indices that sorts the values; the *)
(* default sort is not stable, so equal values come in any order            *)
argsort(p) ==
    { s \in [1..Len(p) -> 1..Len(p)] :
        /\ \A i, j \in 1..Len(p) : i # j => s[i] # s[j]
        /\ \A i \in 1..(Len(p) - 1) : fl_le(p[s[i]], p[s[i + 1]]) }

(* lines 216-217: adjusted[i] = min(adjusted[i], adjusted[i+1]), from the   *)
(* largest rank down                                                        *)
RECURSIVE EnsureMonotone(_, _)
EnsureMonotone(adj, i) ==
    IF i >= Len(adj) THEN adj
    ELSE LET rest == EnsureMonotone(adj, i + 1)
         IN [rest EXCEPT ![i] = fl_min(adj[i], rest[i + 1])]

(* fdr_correction, lines 179-233; sorted_idx is the result of np.argsort *)
fdr_correction(p_values, alpha, method, sorted_idx) ==
    LET n == Len(p_values)
    IN IF n = 0 THEN Returned([adjusted |-> <<>>, reject |-> <<>>])
       ELSE IF method = "bonferroni"
       THEN LET adjusted == [i \in 1..n |-> fl_min(fl_mul(p_values[i], n), One)]
            IN Returned([adjusted |-> adjusted,
                         reject |-> [i \in 1..n |-> fl_lt(adjusted[i], alpha)]])
       ELSE IF method = "benjamini-hochberg"
       THEN LET sorted_p == [i \in 1..n |-> p_values[sorted_idx[i]]]
                raw == [i \in 1..n |-> fl_div(fl_mul(sorted_p[i], n), i)]
                mono == EnsureMonotone(raw, 1)
                capped == [i \in 1..n |-> fl_min(mono[i], One)]
                adjusted == [j \in 1..n |->
                               capped[CHOOSE i \in 1..n : sorted_idx[i] = j]]
            IN Returned([adjusted |-> adjusted,
                         reject |-> [i \in 1..n |-> fl_lt(adjusted[i], alpha)]])
       ELSE Raised("ValueError")

(* lines 326 and 139: x[~np.isnan(x)] and the paired mask                   *)
(* ~(np.isnan(x) | np.isnan(y))                                             *)
NotNaN(x) == { i \in 1..Len(x) : ~IsNaN(x[i]) }
(* mask = ~(np.isnan(x) | np.isnan(y)) *)
ValidPairs(x, y) == NotNaN(x) \cap NotNaN(y)

(* np.std(g, ddof=1) of the values kept by mask: NaN for a single value, 0  *)
(* when all values are equal, positive otherwise                            *)
std_is_nan(g, mask) == Cardinality(mask) = 1
std_is_zero(g, mask) ==
    Cardinality(mask) >= 2 /\ \A i, j \in mask : g[i] = g[j]

(* robust_regression, lines 236-309; sklearn tells whether scikit-learn can *)
(* be imported.  The fitted values are the token "results".                 *)
robust_regression(x, y, method, sklearn) ==
    IF Cardinality(ValidPairs(x, y)) < 3
    THEN Returned([slope |-> NaN, intercept |-> NaN,
                   ci_slope |-> <<NaN, NaN>>, r_squared |-> NaN])
    ELSE IF method = "theil-sen" THEN Returned("results")
    ELSE IF method = "huber"
    THEN (IF sklearn THEN Returned("results") ELSE Raised("ImportError"))
    ELSE Raised("ValueError")

(* calculate_effect_size, lines 312-362.  A quotient with a NaN standard    *)
(* deviation is NaN; any other effect size is the token "effect_size".      *)
calculate_effect_size(group1, group2, method) ==
    LET g1 == NotNaN(group1)
        g2 == NotNaN(group2)
        pooled_zero == std_is_zero(group1, g1) /\ std_is_zero(group2, g2)
        pooled_nan == std_is_nan(group1, g1) \/ std_is_nan(group2, g2)
    IN IF g1 = {} \/ g2 = {} THEN Returned(NaN)
       ELSE IF method \in {"cohen_d", "hedges_g"}
       THEN (IF pooled_zero \/ pooled_nan
             THEN Returned(NaN) ELSE Returned("effect_size"))
       ELSE IF method = "glass_delta"
       THEN (IF std_is_zero(group2, g2) \/ std_is_nan(group2, g2)
             THEN Returned(NaN) ELSE Returned("effect_size"))
       ELSE Raised("ValueError")

-----------------------------------------------------------------------------
(* Random numbers and resampling                                            *)
(*                                                                          *)
(* A generator is its state, a number below RngMod.  default_rng(seed) is a *)
(* fixed function of the seed and every draw moves the state by a fixed     *)
(* rule (a full-period congruential step stands for PCG64, and for the      *)
(* Mersenne twister behind np.random).  Values of the resampled statistics  *)
(* are exact: a mean of n values is kept as 200 * (their sum), in units of  *)
(* 1/(200 n), so that interpolated percentiles are integers.                *)

RngMod == 16

default_rng(seed) == seed % RngMod

bit_generator_next(s) == (5 * s + 3) % RngMod

(* rng.integers(low, high): the state after the draw and the value drawn *)
integers(s, low, high) ==
    [state |-> bit_generator_next(s),
     value |-> low + (bit_generator_next(s) % (high - low))]

(* rng.choice(a, size=k, replace=True) on an array of n entries: k draws of *)
(* an index in 0..n-1                                                       *)
RECURSIVE choice(_, _, _)
choice(s, n, k) ==
    IF k = 0 THEN [state |-> s, value |-> <<>>]
    ELSE LET d == integers(s, 0, n)
             rest == choice(d.state, n, k - 1)
         IN [state |-> rest.state, value |-> <<d.value>> \o rest.value]

(* a[indices] for 0-based indices *)
take(a, indices) == [k \in 1..Len(indices) |-> a[indices[k] + 1]]

(* the series with its NaN values kept *)
clean_Keep(a) == a

(* time_series[~np.isnan(time_series)] *)
RECURSIVE clean(_)
clean(a) ==
    IF a = <<>> THEN <<>>
    ELSE (IF IsNaN(Head(a)) THEN <<>> ELSE <<Head(a)>>) \o clean(Tail(a))

RECURSIVE np_sum(_)
np_sum(a) == IF a = <<>> THEN 0 ELSE Val(Head(a)) + np_sum(Tail(a))

(* np.mean(a), in units of 1/(200 * len(a)): NaN for an empty array and for *)
(* an array with a NaN in it                                                *)
np_mean(a) ==
    IF a = <<>> \/ \E k \in 1..Len(a) : IsNaN(a[k]) THEN NaN
    ELSE <<200 * np_sum(a)>>

RECURSIVE insert(_, _)
insert(v, s) ==
    IF s = <<>> THEN <<v>>
    ELSE IF v <= Head(s) THEN <<v>> \o s
    ELSE <<Head(s)>> \o insert(v, Tail(s))

RECURSIVE sorted(_)
sorted(a) == IF a = <<>> THEN <<>> ELSE insert(Val(Head(a)), sorted(Tail(a)))

(* np.percentile(a, q) with linear interpolation, for q = q2 / 2 and values *)
(* in units of 1/200: NaN if a value is NaN                                 *)
np_percentile(a, q2) ==
    IF a = <<>> \/ \E k \in 1..Len(a) : IsNaN(a[k]) THEN NaN
    ELSE LET s == sorted(a)
             pos == q2 * (Len(a) - 1)
             k == pos \div 200
             r == pos % 200
         IN <<s[k + 1]
                + (IF r = 0 THEN 0 ELSE (r * (s[k + 2] - s[k + 1])) \div 200)>>

(* bootstrap_ci, lines 22-60, with statistic_func = np.mean; confidence is  *)
(* in percent, so 100 * alpha / 2 = (100 - confidence) / 2                  *)
RECURSIVE resampled_means(_, _, _)
resampled_means(s, data, b) ==
    IF b = 0 THEN <<>>
    ELSE LET sample == choice(s, Len(data), Len(data))
         IN <<np_mean(take(data, sample.value))>>
                \o resampled_means(sample.state, data, b - 1)

(* bootstrap_ci with the two percentiles exchanged *)
bootstrap_ci_Exchanged(data, n_bootstrap, confidence, seed) ==
    LET rng == default_rng(seed)
        obs_stat == np_mean(data)
        bootstrap_stats == resampled_means(rng, data, n_bootstrap)
    IN Returned(<<obs_stat,
                  np_percentile(bootstrap_stats, 100 + confidence),
                  np_percentile(bootstrap_stats, 100 - confidence)>>)

bootstrap_ci(data, n_bootstrap, confidence, seed) ==
    LET rng == default_rng(seed)
        obs_stat == np_mean(data)
        bootstrap_stats == resampled_means(rng, data, n_bootstrap)
    IN Returned(<<obs_stat,
                  np_percentile(bootstrap_stats, 100 - confidence),
                  np_percentile(bootstrap_stats, 100 + confidence)>>)

(* line 100, and thermal_composite_analysis.py line 121: a block that wraps *)
(* past the end of the series; range(block_length) is empty for a           *)
(* block_length of 0 or less                                                *)
block_indices(start_idx, block_length, n) ==
    [i \in 1..Max(block_length, 0) |-> (start_idx + i - 1) % n]

(* moving_block_bootstrap_forecast, line 398: list(range(start, start + b)) *)
forecast_block_indices(start_idx, block_length) ==
    [i \in 1..Max(block_length, 0) |-> start_idx + i - 1]

(* the resample kept whole *)
trim_Whole(indices, n) == indices

(* indices[:n] *)
trim(indices, n) == SubSeq(indices, 1, Min(n, Len(indices)))

(* line 401: [clean_data[idx % n] for idx in indices[n:n+forecast_horizon]] *)
forecast_values(clean_data, indices, horizon) ==
    LET n == Len(clean_data)
    IN [k \in 1..Min(horizon, Len(indices) - n) |->
            clean_data[(indices[n + k] % n) + 1]]

(* ConnectivityAnalyzer.bootstrap_connectivity, connectivity_analysis.py    *)
(* lines 163-210.  A matrix is one number here (every entry is treated      *)
(* alike); g is the state of np.random, which line 191 draws from.          *)
RECURSIVE sampled_averages(_, _, _)
sampled_averages(g, matrices, b) ==
    IF b = 0 THEN [state |-> g, value |-> <<>>]
    ELSE LET sample == choice(g, Len(matrices), Len(matrices))
             rest == sampled_averages(sample.state, matrices, b - 1)
         IN [state |-> rest.state,
             value |-> <<np_mean(take(matrices, sample.value))>> \o rest.value]

bootstrap_connectivity(matrices, n_bootstrap, one_dimensional, g) ==
    IF matrices = <<>> \/ ~one_dimensional
    THEN [state |-> g, out |-> Raised("ValueError")]
    ELSE LET r == sampled_averages(g, matrices, n_bootstrap)
         IN [state |-> r.state,
             out |-> Returned([mean |-> np_sum(r.value),
                               ci_low |-> np_percentile(r.value, 5),
                               ci_high |-> np_percentile(r.value, 195)])]

-----------------------------------------------------------------------------
(* permutation_test                                                         *)

(* a signed float: <<m, e>> is m * 2^e *)
fl_neg(a) == <<0 - a[1], a[2]>>
fl_abs(a) == <<Abs(a[1]), a[2]>>

(* a + b, rounded *)
fl_add(a, b) ==
    LET e == Min(a[2], b[2])
        D == a[1] * Pow2(a[2] - e) + b[1] * Pow2(b[2] - e)
        t == RoundSig(Abs(D))
        r == Norm(t[1], e + t[2])
    IN IF D < 0 THEN fl_neg(r) ELSE r

fl_sub(a, b) == fl_add(a, fl_neg(b))

(* np.add.reduce of a short array: the values are added from left to right, *)
(* every partial sum rounded                                                *)
RECURSIVE fl_sum(_, _)
fl_sum(acc, a) ==
    IF a = <<>> THEN acc ELSE fl_sum(fl_add(acc, Norm(Head(a), 0)), Tail(a))

(* np.mean(a) = np.add.reduce(a) / len(a) *)
fl_mean(a) ==
    LET s == fl_sum(<<0, 0>>, a)
        q == fl_div(fl_abs(s), Len(a))
    IN IF s[1] < 0 THEN fl_neg(q) ELSE q

(* x[mask] as a sequence of numbers *)
RECURSIVE select(_, _, _)
select(a, mask, i) ==
    IF i > Len(a) THEN <<>>
    ELSE (IF i \in mask THEN <<Val(a[i])>> ELSE <<>>) \o select(a, mask, i + 1)

(* rng.permutation(a): a shuffled copy, by exchanges of the entry at i with *)
(* an entry drawn among those up to i, for i from the last entry down       *)
RECURSIVE shuffle(_, _, _)
shuffle(s, a, i) ==
    IF i < 2 THEN [state |-> s, value |-> a]
    ELSE LET j == integers(s, 0, i)
             b == [a EXCEPT ![i] = a[j.value + 1], ![j.value + 1] = a[i]]
         IN shuffle(j.state, b, i - 1)

(* a shuffled copy made of one drawn entry repeated *)
permutation_Repeated(s, a) ==
    LET j == integers(s, 0, Len(a))
    IN [state |-> j.state, value |-> [i \in 1..Len(a) |-> a[j.value + 1]]]

permutation(s, a) == shuffle(s, a, Len(a))

(* n * (sum of u[i] * v[i]) - (sum of u) * (sum of v): n^2 times the        *)
(* covariance of u and v                                                    *)
RECURSIVE dot(_, _)
dot(u, v) == IF u = <<>> THEN 0 ELSE Head(u) * Head(v) + dot(Tail(u), Tail(v))

cov(u, v) ==
    LET ones == [i \in 1..Len(u) |-> 1]
    IN Len(u) * dot(u, v) - dot(u, ones) * dot(v, ones)

(* scipy.stats.rankdata: average ranks, doubled *)
rankdata(a) ==
    [i \in 1..Len(a) |->
        2 * Cardinality({ j \in 1..Len(a) : a[j] < a[i] })
          + Cardinality({ j \in 1..Len(a) : a[j] = a[i] }) + 1]

(* spearmanr(x, y)[0], the correlation of the ranks: NaN for a constant     *)
(* input.  The value kept is the numerator cov(rank x, rank y); the         *)
(* denominator is positive and the same for every reordering of y and for   *)
(* -y, so that comparisons of absolute values are those of the source.      *)
spearmanr(x, y) ==
    LET rx == rankdata(x)
        ry == rankdata(y)
    IN IF cov(rx, rx) = 0 \/ cov(ry, ry) = 0 THEN NaN ELSE <<cov(rx, ry)>>

(* stats.linregress(x, y).slope = cov(x, y) / var(x), kept as its numerator *)
(* in the same way; no slope for a constant x                               *)
linregress_slope(x, y) == IF cov(x, x) = 0 THEN NaN ELSE <<cov(x, y)>>

(* np.mean(x) - np.mean(y) in floating point *)
difference(x, y) == fl_sub(fl_mean(x), fl_mean(y))

(* the statistic of lines 147-152 and 162-167 *)
statistic_of(statistic, x, y) ==
    IF statistic = "correlation" THEN spearmanr(x, y)
    ELSE IF statistic = "slope" THEN linregress_slope(x, y)
    ELSE difference(x, y)

(* np.abs(perm_stat) >= np.abs(obs_stat): false if one of them is NaN *)
abs_ge(statistic, perm_stat, obs_stat) ==
    IF statistic = "difference"
    THEN fl_le(fl_abs(obs_stat), fl_abs(perm_stat))
    ELSE /\ ~IsNaN(perm_stat) /\ ~IsNaN(obs_stat)
         /\ Abs(Val(perm_stat)) >= Abs(Val(obs_stat))

(* line 160 in the k passes of the loop: the reorderings of y drawn *)
RECURSIVE permutations_drawn(_, _, _)
permutations_drawn(s, y, k) ==
    IF k = 0 THEN <<>>
    ELSE LET y_perm == permutation(s, y)
         IN <<y_perm.value>> \o permutations_drawn(y_perm.state, y, k - 1)

(* lines 159-170: the permuted statistics, one per permutation drawn *)
perm_stats(s, statistic, x, y, k) ==
    LET y_perms == permutations_drawn(s, y, k)
    IN [i \in 1..k |-> statistic_of(statistic, x, y_perms[i])]

(* permutation_test, lines 119-176.  The p-value is the pair                *)
(* <<count, n_permutations>>, the mean of n_permutations booleans.          *)
permutation_test(x, y, statistic, n_permutations, seed) ==
    LET rng == default_rng(seed)
        mask == ValidPairs(x, y)
        x_clean == select(x, mask, 1)
        y_clean == select(y, mask, 1)
    IN IF Len(x_clean) < 3 THEN Returned(NaN)
       ELSE IF statistic \in {"correlation", "difference", "slope"}
       THEN LET obs_stat == statistic_of(statistic, x_clean, y_clean)
                stats == perm_stats(rng, statistic, x_clean, y_clean,
                                    n_permutations)
                count == Cardinality({ k \in 1..n_permutations :
                                         abs_ge(statistic, stats[k], obs_stat) })
            IN Returned(<<count, n_permutations>>)
       ELSE Raised("ValueError")

-----------------------------------------------------------------------------
(* Calls of the routines: the arguments a caller can pass *)

(* 0, 1/16, 1/2, 11/16, 3/4, 7/8, 1 *)
PValues == {<<0, 0>>, <<1, -4>>, <<1, -1>>, <<11, -4>>, <<3, -2>>, <<7, -3>>, One}

(* significance levels 1/16 and 1/2 *)
Alphas == {<<1, -4>>, <<1, -1>>}

(* data arrays with missing values *)
DataValues == {NaN, <<1>>, <<2>>}

Arrays(values) == UNION { [1..n -> values] : n \in 0..MaxLen }

FdrCalls ==
    [fn : {"fdr_correction"}, p_values : Arrays(PValues), alpha : Alphas,
     method : {"benjamini-hochberg", "bonferroni", "holm"}]

PairedArrays ==
    UNION { [x : [1..n -> DataValues], y : [1..n -> DataValues]] :
              n \in 0..MaxLen }

PermutationCalls ==
    { [fn |-> "permutation_test", x |-> d.x, y |-> d.y, statistic |-> s,
       n_permutations |-> 1, seed |-> 42] :
        d \in PairedArrays,
        s \in {"correlation", "difference", "slope", "kendall"} }

RegressionCalls ==
    { [fn |-> "robust_regression", x |-> d.x, y |-> d.y, method |-> m,
       sklearn |-> k] :
        d \in PairedArrays, m \in {"theil-sen", "huber", "ols"},
        k \in BOOLEAN }

EffectSizeCalls ==
    [fn : {"calculate_effect_size"}, group1 : Arrays(DataValues),
     group2 : Arrays(DataValues),
     method : {"cohen_d", "hedges_g", "glass_delta", "cliffs_delta"}]

MaxBoot == 2
MaxHorizon == 2

(* a block_length a caller may pass: negative, 0, up to beyond the series *)
BlockLengths == (0 - 1)..(MaxLen + 1)

Seeds == {0, 1, 42}

BootstrapCalls ==
    [fn : {"bootstrap_ci"}, data : Arrays(DataValues), n_bootstrap : 1..MaxBoot,
     confidence : {50, 95}, seed : Seeds]

BlockBootstrapCalls ==
    [fn : {"block_bootstrap_ci"}, time_series : Arrays(DataValues),
     block_length : BlockLengths, n_bootstrap : 1..MaxBoot, confidence : {95},
     seed : Seeds]

(* ThermalAnalyzer.block_bootstrap_mean(day_values, block_len, n_boot): the *)
(* seed is 42 and the percentiles are 2.5 and 97.5                          *)
BlockBootstrapMeanCalls ==
    [fn : {"block_bootstrap_mean"}, time_series : Arrays(DataValues),
     block_length : BlockLengths, n_bootstrap : 1..MaxBoot, confidence : {95},
     seed : {42}]

ForecastCalls ==
    [fn : {"moving_block_bootstrap_forecast"},
     time_series : Arrays(DataValues), forecast_horizon : 1..MaxHorizon,
     block_length : BlockLengths, n_bootstrap : 1..MaxBoot, confidence : {95},
     seed : Seeds]

(* the matrices loaded for the years asked for: none, or up to MaxLen.     *)
(* np.random.choice needs a 1-dimensional array: np.asarray of the list of  *)
(* matrices is one only if their shapes differ and numpy builds an array of *)
(* objects; matrices of one shape make a 3-dimensional array                *)
ConnectivityCalls ==
    [fn : {"bootstrap_connectivity"}, matrices : Arrays({<<1>>, <<2>>}),
     one_dimensional : BOOLEAN, n_bootstrap : 1..MaxBoot]

(* the routines that resample *)
Resampling ==
    {"bootstrap_ci", "block_bootstrap_ci", "block_bootstrap_mean",
     "moving_block_bootstrap_forecast", "bootstrap_connectivity"}

Calls ==
    FdrCalls \cup PermutationCalls \cup RegressionCalls \cup EffectSizeCalls
        \cup BootstrapCalls \cup BlockBootstrapCalls
        \cup BlockBootstrapMeanCalls \cup ForecastCalls \cup ConnectivityCalls

model_vars ==
    <<cfg, time, t0, sublethal_run, elements, sublethal_run_max,
      elements_deactivated, environment, requests, checks, held, solo,
      pc, steps, crashed>>

(* no simulation is running while the analysis routines are called *)
InitStats ==
    /\ args \in Calls
    /\ result = <<>>
    /\ locals = <<>>
    /\ previous = <<>>
    /\ np_random \in (IF args.fn \in Resampling THEN 0..1 ELSE {0})
    /\ cfg = <<>> /\ time = 0 /\ t0 = None /\ sublethal_run = None
    /\ elements = <<>> /\ sublethal_run_max = <<>>
    /\ elements_deactivated = <<>> /\ environment = <<>>
    /\ requests = <<>> /\ checks = <<>> /\ held = <<>> /\ solo = <<>>
    /\ pc = "analysis" /\ steps = 0 /\ crashed = FALSE

FdrCorrection ==
    /\ result = <<>>
    /\ args.fn = "fdr_correction"
    /\ \E sorted_idx \in argsort(args.p_values) :
          result' = fdr_correction(args.p_values, args.alpha, args.method,
                                   sorted_idx)
    /\ UNCHANGED <<args, locals, previous, np_random, model_vars>>

PermutationTest ==
    /\ result = <<>>
    /\ args.fn = "permutation_test"
    /\ result' = permutation_test(args.x, args.y, args.statistic,
                                  args.n_permutations, args.seed)
    /\ UNCHANGED <<args, locals, previous, np_random, model_vars>>

RobustRegression ==
    /\ result = <<>>
    /\ args.fn = "robust_regression"
    /\ result' = robust_regression(args.x, args.y, args.method, args.sklearn)
    /\ UNCHANGED <<args, locals, previous, np_random, model_vars>>

CalculateEffectSize ==
    /\ result = <<>>
    /\ args.fn = "calculate_effect_size"
    /\ result' = calculate_effect_size(args.group1, args.group2, args.method)
    /\ UNCHANGED <<args, locals, previous, np_random, model_vars>>

BootstrapCI ==
    /\ result = <<>>
    /\ args.fn = "bootstrap_ci"
    /\ result' = bootstrap_ci(args.data, args.n_bootstrap, args.confidence,
                              args.seed)
    /\ UNCHANGED <<args, locals, previous, np_random, model_vars>>

BootstrapConnectivity ==
    /\ result = <<>>
    /\ args.fn = "bootstrap_connectivity"
    /\ LET r == bootstrap_connectivity(args.matrices, args.n_bootstrap,
                                       args.one_dimensional, np_random)
       IN result' = r.out /\ np_random' = r.state
    /\ UNCHANGED <<args, locals, previous, model_vars>>

(* block_bootstrap_ci, lines 83-91, and block_bootstrap_mean, thermal       *)
(* lines 108-115: NaN removal, the early return, the generator              *)
BlockBootstrapStart ==
    /\ result = <<>> /\ locals = <<>>
    /\ args.fn \in {"block_bootstrap_ci", "block_bootstrap_mean"}
    /\ LET clean_data == clean(args.time_series)
       IN IF Len(clean_data) = 0
          THEN result' = Returned(<<NaN, NaN, NaN>>) /\ UNCHANGED locals
          ELSE /\ locals' = [rng |-> default_rng(args.seed),
                             clean_data |-> clean_data, target |-> Len(clean_data),
                             bootstrap_stats |-> <<>>, indices |-> <<>>,
                             loc |-> "for"]
               /\ UNCHANGED result
    /\ UNCHANGED <<args, previous, np_random, model_vars>>

(* moving_block_bootstrap_forecast, lines 385-393 *)
ForecastStart ==
    /\ result = <<>> /\ locals = <<>>
    /\ args.fn = "moving_block_bootstrap_forecast"
    /\ LET clean_data == clean(args.time_series)
       IN IF Len(clean_data) < args.block_length
          THEN result' = Returned(<<NaN, NaN, NaN>>) /\ UNCHANGED locals
          ELSE /\ locals' = [rng |-> default_rng(args.seed),
                             clean_data |-> clean_data,
                             target |-> Len(clean_data) + args.forecast_horizon,
                             bootstrap_stats |-> <<>>, indices |-> <<>>,
                             loc |-> "for"]
               /\ UNCHANGED result
    /\ UNCHANGED <<args, previous, np_random, model_vars>>

(* for _ in range(n_bootstrap): indices = [] *)
BeginResample ==
    /\ result = <<>> /\ locals # <<>>
    /\ locals.loc = "for"
    /\ Len(locals.bootstrap_stats) < args.n_bootstrap
    /\ locals' = [locals EXCEPT !.indices = <<>>, !.loc = "while"]
    /\ UNCHANGED <<args, result, previous, np_random, model_vars>>

(* lines 98-101 (thermal 119-122): one pass of while len(indices) < n *)
DrawBlock ==
    /\ result = <<>> /\ locals # <<>>
    /\ args.fn \in {"block_bootstrap_ci", "block_bootstrap_mean"}
    /\ locals.loc = "while"
    /\ Len(locals.indices) < locals.target
    /\ LET n == Len(locals.clean_data)
           start_idx == integers(locals.rng, 0, n)
       IN locals' = [locals EXCEPT
                        !.rng = start_idx.state,
                        !.indices = @ \o block_indices(start_idx.value,
                                                       args.block_length, n)]
    /\ UNCHANGED <<args, result, previous, np_random, model_vars>>

(* lines 396-399: one pass of while len(indices) < n + forecast_horizon *)
DrawForecastBlock ==
    /\ result = <<>> /\ locals # <<>>
    /\ args.fn = "moving_block_bootstrap_forecast"
    /\ locals.loc = "while"
    /\ Len(locals.indices) < locals.target
    /\ LET n == Len(locals.clean_data)
           start_idx == integers(locals.rng, 0, n - args.block_length + 1)
       IN locals' = [locals EXCEPT
                        !.rng = start_idx.state,
                        !.indices = @ \o forecast_block_indices(
                                             start_idx.value, args.block_length)]
    /\ UNCHANGED <<args, result, previous, np_random, model_vars>>

(* lines 103-106 (thermal 123-124): the resample is cut to n indices and    *)
(* its statistic is stored                                                  *)
TrimResample ==
    /\ result = <<>> /\ locals # <<>>
    /\ args.fn \in {"block_bootstrap_ci", "block_bootstrap_mean"}
    /\ locals.loc = "while"
    /\ Len(locals.indices) >= locals.target
    /\ LET indices == trim(locals.indices, Len(locals.clean_data))
           sample == take(locals.clean_data, indices)
       IN locals' = [locals EXCEPT
                        !.indices = indices,
                        !.bootstrap_stats = Append(@, np_mean(sample)),
                        !.loc = "for"]
    /\ UNCHANGED <<args, result, previous, np_random, model_vars>>

(* lines 401-402 *)
ForecastValues ==
    /\ result = <<>> /\ locals # <<>>
    /\ args.fn = "moving_block_bootstrap_forecast"
    /\ locals.loc = "while"
    /\ Len(locals.indices) >= locals.target
    /\ LET values == forecast_values(locals.clean_data, locals.indices,
                                     args.forecast_horizon)
       IN locals' = [locals EXCEPT
                        !.bootstrap_stats = Append(@, np_mean(values)),
                        !.loc = "for"]
    /\ UNCHANGED <<args, result, previous, np_random, model_vars>>

(* lines 108-116 (thermal 126-130, 411-416 for the forecast): the first     *)
(* component is the statistic of the cleaned series in block_bootstrap_ci   *)
(* and the mean of the resampled means in the other two routines            *)
ResamplingReturn ==
    /\ result = <<>> /\ locals # <<>>
    /\ locals.loc = "for"
    /\ Len(locals.bootstrap_stats) = args.n_bootstrap
    /\ LET stats == locals.bootstrap_stats
           first == IF args.fn = "block_bootstrap_ci"
                    THEN np_mean(locals.clean_data)
                    ELSE <<np_sum(stats)>>
       IN result' = Returned(<<first,
                               np_percentile(stats, 100 - args.confidence),
                               np_percentile(stats, 100 + args.confidence)>>)
    /\ locals' = <<>>
    /\ UNCHANGED <<args, previous, np_random, model_vars>>

(* the caller repeats a resampling call with the same arguments *)
Repeat ==
    /\ result # <<>> /\ previous = <<>>
    /\ args.fn \in Resampling
    /\ previous' = result
    /\ result' = <<>>
    /\ UNCHANGED <<args, locals, np_random, model_vars>>

NextStats ==
    \/ FdrCorrection
    \/ PermutationTest
    \/ RobustRegression
    \/ CalculateEffectSize
    \/ BootstrapCI
    \/ BootstrapConnectivity
    \/ BlockBootstrapStart
    \/ ForecastStart
    \/ BeginResample
    \/ DrawBlock
    \/ DrawForecastBlock
    \/ TrimResample
    \/ ForecastValues
    \/ ResamplingReturn
    \/ Repeat

SpecStats == InitStats /\ [][NextStats]_vars

(* C19: fdr_correction with method 'benjamini-hochberg', for every vector   *)
(* of p-values in [0, 1]: the adjusted values are non-decreasing in the     *)
(* order of the raw p-values, each adjusted value is >= its raw p-value and *)
(* <= 1.0, output i belongs to input i (equal raw p-values get equal        *)
(* adjusted values), and reject[i] holds exactly when adjusted[i] < alpha.  *)
C19_BenjaminiHochberg ==
    (result # <<>> /\ args.fn = "fdr_correction"
        /\ args.method = "benjamini-hochberg")
    => LET p == args.p_values
           n == Len(p)
           adjusted == result.value.adjusted
           reject == result.value.reject
       IN /\ result.raised = ""
          /\ Len(adjusted) = n /\ Len(reject) = n
          /\ \A i, j \in 1..n :
                fl_le(p[i], p[j]) => fl_le(adjusted[i], adjusted[j])
          /\ \A i \in 1..n :
                fl_le(p[i], adjusted[i]) /\ fl_le(adjusted[i], One)
          /\ \A i, j \in 1..n : p[i] = p[j] => adjusted[i] = adjusted[j]
          /\ \A i \in 1..n : reject[i] <=> fl_lt(adjusted[i], args.alpha)

(* the method or statistic name of the call is none the routine knows *)
UnknownMethod ==
    \/ args.fn = "fdr_correction"
          /\ args.method \notin {"benjamini-hochberg", "bonferroni"}
    \/ args.fn = "permutation_test"
          /\ args.statistic \notin {"correlation", "difference", "slope"}
    \/ args.fn = "robust_regression"
          /\ args.method \notin {"theil-sen", "huber"}
    \/ args.fn = "calculate_effect_size"
          /\ args.method \notin {"cohen_d", "hedges_g", "glass_delta"}

(* C20: permutation_test, fdr_correction, robust_regression and             *)
(* calculate_effect_size raise an error when called with an unknown method  *)
(* or statistic name, for every input data (empty input and fewer than 3    *)
(* valid pairs included); they never return a value instead.                *)
C20_UnknownMethodRaises ==
    (result # <<>> /\ UnknownMethod) => result.raised = "ValueError"

(* C27: every processed timestep is attributed to exactly one stage of the  *)
(* particle: between two timesteps egg_hours + larva_hours equals the time  *)
(* the particle has been processed, and a particle that hatched in the last *)
(* timestep has acc_deg_h = 0, progress = 0 and no larval hours or age yet. *)
C27_OneStagePerTimestep ==
    (pc = "transport" /\ ~crashed) =>
        \A i \in 1..N :
            LET p == elements[i]
            IN /\ p.egg_hours + p.larva_hours = steps * cfg.dt_h
               /\ (~IsNaN(p.hatch_time_h)
                     /\ Val(p.hatch_time_h) = hours_since_start - cfg.dt_h)
                     => /\ p.acc_deg_h = 0 /\ p.progress = 0
                        /\ p.larva_hours = 0 /\ p.age_h = 0

(* C29: a settled particle is a competent larva whose hatching, competency  *)
(* and settlement are all recorded, in that order in time; and no particle  *)
(* is both settled and deactivated for cold stagnation.                     *)
C29_SettledLarvaHistory ==
    \A id \in Seeded : \A p \in {Particle(id)} :
        /\ p.settled_flag = 1 =>
              /\ p.stage = 1 /\ p.competent = 1
              /\ ~IsNaN(p.hatch_time_h) /\ ~IsNaN(p.competent_time_h)
              /\ ~IsNaN(p.settle_time_h)
              /\ Val(p.hatch_time_h) <= Val(p.competent_time_h)
              /\ Val(p.competent_time_h) <= Val(p.settle_time_h)
        /\ ~(Has(requests[id], "larval_complete")
                /\ Has(requests[id], "larval_cold_stagnant"))
        /\ ~(p.settled_flag = 1 /\ Has(requests[id], "larval_cold_stagnant"))

(* a particle settled in a later timestep than the one of its competency,   *)
(* which came later than the one of its hatching                            *)
C29_SettledLongAfterCompetency ==
    \E id \in Seeded : \A p \in {Particle(id)} :
        /\ p.settled_flag = 1
        /\ Val(p.hatch_time_h) < Val(p.competent_time_h)
        /\ Val(p.competent_time_h) < Val(p.settle_time_h)

-----------------------------------------------------------------------------
(* Runs of unbounded length under the default settings                      *)
(*                                                                          *)
(* The framework calls update() once per timestep until the end of the run; *)
(* a run is as long as its caller asks. Here the run goes on for MaxSteps   *)
(* timesteps while the particle is an egg and for as long as a larva is     *)
(* active, up to MaxLarvaSteps timesteps of larval life. The temperatures   *)
(* are 15.0 (the egg develops, a larva is cold), 19.0 (T0_larva itself) and *)
(* 33.0 degC (a larva completes in three timesteps).                        *)

MaxLarvaSteps == 12

(* the values of __init__, lines 161-169 *)
DefaultRuns ==
    { Config(None, None, <<4>>, 0, TRUE, FALSE, 24, 0, 1, {150, 190, 330}, {-9}) }

InitLive ==
    /\ cfg \in DefaultRuns
    /\ time = cfg.start_hour
    /\ t0 = None
    /\ sublethal_run = None
    /\ elements = [i \in 1..cfg.n |-> HardClamElement(i, 0, -9)]
    /\ sublethal_run_max = [i \in 1..cfg.n |-> 0]
    /\ elements_deactivated = <<>>
    /\ environment = <<>>
    /\ requests = [id \in IDs |-> <<>>]
    /\ checks = [id \in IDs |-> <<>>]
    /\ held = [id \in IDs |-> {}]
    /\ solo = [id \in IDs |-> [run |-> 0, run_max |-> 0]]
    /\ pc = "transport"
    /\ steps = 0
    /\ crashed = FALSE
    /\ args = <<>>
    /\ result = <<>>
    /\ locals = <<>>
    /\ previous = <<>>
    /\ np_random = 0

(* a timestep of a run that lasts as long as a larva is active *)
TransportLive ==
    /\ IF \E i \in 1..N : elements[i].stage = 1
       THEN \E i \in 1..N : /\ elements[i].stage = 1
                            /\ elements[i].larva_hours < MaxLarvaSteps * cfg.dt_h
       ELSE steps < MaxSteps
    /\ advect

NextLive ==
    \/ TransportLive
    \/ LethalExposure
    \/ SublethalExposure
    \/ EggStageUpdate
    \/ LarvaStageUpdate
    \/ LarvaStatisticsUpdate
    \/ Settlement
    \/ UpdateFinalDistance
    \/ RemoveDeactivated

(* update() is straight-line code and the framework's time loop calls it    *)
(* for every timestep of the run: a step that can be taken is taken.        *)
SpecLive == InitLive /\ [][NextLive]_vars /\ WF_vars(NextLive)

InitResample ==
    /\ InitStats
    /\ args.fn \in {"block_bootstrap_ci", "block_bootstrap_mean",
                     "moving_block_bootstrap_forecast"}

NextResample ==
    \/ BlockBootstrapStart
    \/ ForecastStart
    \/ BeginResample
    \/ DrawBlock
    \/ DrawForecastBlock
    \/ TrimResample
    \/ ForecastValues
    \/ ResamplingReturn
    \/ Repeat

(* a routine that has been called runs on: a statement that can be executed *)
(* is executed                                                              *)
SpecResample == InitResample /\ [][NextResample]_vars /\ WF_vars(NextResample)

(* C21: for every non-empty series and every integer block_length,          *)
(* including 0 and values larger than the series, block_bootstrap_ci,       *)
(* ThermalAnalyzer.block_bootstrap_mean and moving_block_bootstrap_forecast *)
(* complete each resample after finitely many block draws and return.       *)
C21_ResamplingReturns ==
    (/\ args.fn \in {"block_bootstrap_ci", "block_bootstrap_mean",
                     "moving_block_bootstrap_forecast"}
     /\ clean(args.time_series) # <<>>
     /\ result = <<>>)
        ~> (result # <<>>)

(* C22: every resample built by block_bootstrap_ci from a cleaned series of *)
(* length n has exactly n indices, each in 0..n-1, and is a concatenation   *)
(* of blocks of block_length consecutive indices taken circularly           *)
(* (idx[k] = (idx[k-1] + 1) mod n at every position k that is not a         *)
(* multiple of block_length); only the last block may be truncated.         *)
C22_ResampleIsCircularBlocks ==
    (/\ args.fn = "block_bootstrap_ci"
     /\ locals # <<>>
     /\ locals.loc = "for"
     /\ locals.bootstrap_stats # <<>>)
        => LET n == Len(locals.clean_data)
               idx == locals.indices
           IN /\ Len(idx) = n
              /\ \A k \in 1..n : idx[k] \in 0..(n - 1)
              /\ \A k \in 1..(n - 1) :
                    k % args.block_length # 0 => idx[k + 1] = (idx[k] + 1) % n
              /\ Len(locals.bootstrap_stats) <= args.n_bootstrap

(* a resample of three indices whose first block wraps past the end of the  *)
(* series and whose second block is cut after one index                     *)
C22_WrappedAndTruncated ==
    /\ args.fn = "block_bootstrap_ci"
    /\ locals # <<>>
    /\ locals.loc = "for"
    /\ Len(locals.clean_data) = 3
    /\ args.block_length = 2
    /\ Len(locals.indices) = 3
    /\ locals.indices[1] = 2 /\ locals.indices[2] = 0

(* C23: every bootstrap and permutation routine draws only from a random    *)
(* source seeded inside the call, so a call repeated with identical inputs  *)
(* returns the identical result, whatever use of random numbers came        *)
(* before; this covers ConnectivityAnalyzer.bootstrap_connectivity.         *)
C23_RepeatedCallsAgree ==
    (previous # <<>> /\ result # <<>>) => result = previous

(* a <= b for floats: false as soon as one of them is NaN *)
np_le(a, b) == ~IsNaN(a) /\ ~IsNaN(b) /\ Val(a) <= Val(b)

HasNaN(a) == \E k \in 1..Len(a) : IsNaN(a[k])

(* C24: bootstrap_ci is deterministic given its seed: two calls with the    *)
(* same arguments return the same triple; its first component is the        *)
(* statistic of the original data, its bounds are the 100*alpha/2 and       *)
(* 100*(1-alpha/2) percentiles of the resampled statistics, and             *)
(* ci_lower <= ci_upper.                                                    *)
C24_BootstrapCIOrdered ==
    (args.fn = "bootstrap_ci" /\ result # <<>>) =>
        /\ previous # <<>> => result = previous
        /\ result.raised = ""
        /\ result.value[1] = np_mean(args.data)
        /\ np_le(result.value[2], result.value[3])

(* C24, amended: the triple is the same in a repeated call and its first    *)
(* component is the statistic of the original data; the bounds are ordered  *)
(* whenever the data hold at least one value and no NaN.  bootstrap_ci does *)
(* not remove NaN: for empty data and for data with a NaN the statistic is  *)
(* NaN, and the two bounds are NaN together, as soon as one resample holds  *)
(* a NaN or is empty.                                                       *)
C24_BootstrapCIOrderedOrNaN ==
    (args.fn = "bootstrap_ci" /\ result # <<>>) =>
        LET obs_stat == result.value[1]
            ci_lower == result.value[2]
            ci_upper == result.value[3]
            stats == resampled_means(default_rng(args.seed), args.data,
                                     args.n_bootstrap)
        IN /\ previous # <<>> => result = previous
           /\ result.raised = ""
           /\ obs_stat = np_mean(args.data)
           /\ IsNaN(obs_stat) <=> (args.data = <<>> \/ HasNaN(args.data))
           /\ IsNaN(ci_lower) <=> IsNaN(ci_upper)
           /\ IsNaN(ci_lower) <=> HasNaN(stats)
           /\ ~IsNaN(obs_stat) => ~IsNaN(ci_lower)
           /\ ~IsNaN(ci_lower) =>
                 /\ Val(ci_lower) <= Val(ci_upper)
                 /\ \E i, j \in 1..Len(stats) :
                       /\ Val(stats[i]) <= Val(ci_lower)
                       /\ Val(ci_upper) <= Val(stats[j])

(* a repeated call on data without NaN whose two resamples have different   *)
(* means, so that the bounds differ                                         *)
C24_RepeatedWithProperInterval ==
    /\ args.fn = "bootstrap_ci"
    /\ previous # <<>> /\ result # <<>>
    /\ ~HasNaN(args.data)
    /\ ~IsNaN(result.value[2])
    /\ Val(result.value[2]) < Val(result.value[3])

(* the pairs left after removing every pair with a NaN in x or in y *)
PairsLeft ==
    Cardinality({ i \in 1..Len(args.x) : ~IsNaN(args.x[i]) /\ ~IsNaN(args.y[i]) })

(* C25: insufficient data yields NaN results and no exception:              *)
(* block_bootstrap_ci returns (NaN, NaN, NaN) when no value remains after   *)
(* NaN removal, without entering its resampling loop; permutation_test      *)
(* returns NaN and robust_regression returns an all-NaN record whenever     *)
(* fewer than 3 pairs remain after removing every pair with a NaN in x or y,*)
(* whatever the statistic or method asked for.                              *)
C25_InsufficientDataGivesNaN ==
    /\ (/\ args.fn = "block_bootstrap_ci"
        /\ \A k \in 1..Len(args.time_series) : IsNaN(args.time_series[k]))
          => /\ locals = <<>>
             /\ result # <<>> => result = Returned(<<NaN, NaN, NaN>>)
    /\ (args.fn = "permutation_test" /\ PairsLeft < 3 /\ result # <<>>)
          => result = Returned(NaN)
    /\ (args.fn = "robust_regression" /\ PairsLeft < 3 /\ result # <<>>)
          => /\ result.raised = ""
             /\ result.value.slope = NaN /\ result.value.intercept = NaN
             /\ result.value.ci_slope = <<NaN, NaN>>
             /\ result.value.r_squared = NaN

(* permutation_test has returned NaN for three pairs of which x lacks one   *)
(* value and y another, so that a single pair is left                       *)
C25_TwoPairsRemoved ==
    /\ args.fn = "permutation_test"
    /\ Len(args.x) = 3
    /\ IsNaN(args.x[1]) /\ ~IsNaN(args.y[1])
    /\ ~IsNaN(args.x[2]) /\ IsNaN(args.y[2])
    /\ PairsLeft = 1
    /\ result = Returned(NaN)

-----------------------------------------------------------------------------
(* permutation_test on complete data, and again with y negated              *)

MaxPairs == 3
MaxPerm == 2

(* y values whose floating-point sum depends on the order of the terms *)
SignTestCalls ==
    UNION { [fn : {"permutation_test"}, x : [1..n -> {<<1>>, <<15>>}],
             y : [1..n -> {<<3>>, <<13>>, <<14>>}],
             statistic : {"correlation", "difference", "slope"},
             n_permutations : 1..MaxPerm, seed : 0..(RngMod - 1)] :
              n \in 3..MaxPairs }

InitPerm ==
    /\ args \in SignTestCalls
    /\ result = <<>>
    /\ locals = <<>>
    /\ previous = <<>>
    /\ np_random = 0
    /\ cfg = <<>> /\ time = 0 /\ t0 = None /\ sublethal_run = None
    /\ elements = <<>> /\ sublethal_run_max = <<>>
    /\ elements_deactivated = <<>> /\ environment = <<>>
    /\ requests = <<>> /\ checks = <<>> /\ held = <<>> /\ solo = <<>>
    /\ pc = "analysis" /\ steps = 0 /\ crashed = FALSE

(* the caller tests (x, -y) after (x, y), with the same seed *)
NegateY ==
    /\ result # <<>> /\ previous = <<>>
    /\ args.fn = "permutation_test"
    /\ previous' = result
    /\ result' = <<>>
    /\ args' = [args EXCEPT !.y = [i \in 1..Len(@) |->
                                      IF IsNaN(@[i]) THEN NaN ELSE <<0 - Val(@[i])>>]]
    /\ UNCHANGED <<locals, np_random, model_vars>>

NextPerm ==
    \/ PermutationTest
    \/ NegateY

SpecPerm == InitPerm /\ [][NextPerm]_vars

(* C26: permutation_test returns the fraction, out of n_permutations        *)
(* permutations of y, of permuted statistics whose absolute value is >= the *)
(* observed absolute value, so 0 <= p <= 1; and for every x, y and seed     *)
(* permutation_test(x, y) and permutation_test(x, -y) return the same       *)
(* p-value, for each statistic kind.                                        *)
C26_TwoTailedSymmetric ==
    (args.fn = "permutation_test" /\ result # <<>>) =>
        /\ result.raised = ""
        /\ result.value[2] = args.n_permutations
        /\ result.value[1] \in 0..args.n_permutations
        /\ previous # <<>> => result = previous

(* mean(x) - mean(y) in exact arithmetic, times the number of pairs *)
difference_exact(x, y) ==
    LET ones == [i \in 1..Len(x) |-> 1]
    IN dot(x, ones) - dot(y, ones)

=============================================================================
